---- MODULE Spec2Model ----
(***************************************************************************)
(* A model of mcp-devbench: the exec manager and its output streamer, the  *)
(* container manager's create path, the filesystem manager's path          *)
(* validation and batch rollback.                                          *)
(*                                                                         *)
(* The service runs on one asyncio event loop: the code between two        *)
(* suspension points (database calls, a contended semaphore) is one atomic *)
(* step.  The output streamer's methods never suspend (their lock is never *)
(* contended, nothing awaits while holding it), so each is part of the     *)
(* step that calls it.                                                     *)
(***************************************************************************)
EXTENDS Integers, Sequences, FiniteSets, TLC

VARIABLES
    now,                  \* the wall clock, in seconds
    containers,           \* DS: the Container rows, container_id -> row
    execs,                \* DS: Exec rows, exec_id -> row
    buffers,              \* OutputStreamer._buffers
    sequences,            \* OutputStreamer._sequences
    buffered_bytes,       \* OutputStreamer._buffered_bytes
    completed,            \* OutputStreamer._completed
    max_buffer_size,      \* OutputStreamer.max_buffer_size
    max_chunks,           \* OutputStreamer.max_chunks
    idempotency_keys,     \* per ExecManager instance: key -> <<exec_id, created_at>>
    container_semaphores, \* per ExecManager instance: container_id -> free permits
    active_execs,         \* per ExecManager instance: exec ids with a registered task
    cancelled,            \* per ExecManager instance: exec ids marked cancelled
    calls,                \* execute() calls that allocated an exec id: exec_id -> call
    tasks,                \* worker tasks: exec_id -> task
    submitted,            \* history: <<key, exec_id, time>> of every Submit that returned
    numCancels,           \* history: Cancel calls made
    pollSeen,             \* history: exec_id -> seq of the first completion chunk a Poll returned
    pollLater,            \* history: exec_id -> highest seq a later Poll returned
    runtime,              \* docker: ids of the containers that exist in the engine
    creates,              \* create_container() calls: call -> its position and locals
    path_input,           \* the path handed to _validate_path
    path_result,          \* what _validate_path did with it: None before the call
    fs,                   \* the files of the workspace: path -> [content, mtime]
    fs_before,            \* history: the files when the batch began
    batch_ops,            \* batch(): the operations
    batch_idx,            \* batch(): the operation to execute next
    rollback_info,        \* batch(): (path, original_content) journal
    batch_phase,          \* batch(): idle, invalid, refused, running, succeeded, rolled_back
    rollback_failed,      \* history: a step of the rollback raised
    fs_log,               \* history: the read() and write() calls and what they returned
    attachments,          \* DS: Attachment rows, id -> [container_id, detached_at]
    kills,                \* kill() calls: call -> its position and locals
    start_failed,         \* history: containers whose latest Start raised
    warm_container,       \* WarmPoolManager._warm_container: None or the container id
    lock,                 \* WarmPoolManager._lock: None or the task holding it
    wtasks,               \* the warm pool's coroutines: task -> its position and locals
    labels,               \* docker: labels of the service's containers, docker_id -> labels
    recon,                \* reconcile(): its position, locals and session
    maintenance,          \* the last GC run of the maintenance manager: None before it
    shutdown,             \* ShutdownCoordinator.initiate_shutdown(): position and locals
    volumes               \* docker: the mcpdevbench_persist_ volumes of the engine

execVars == <<now, containers, execs, buffers, sequences, buffered_bytes, completed,
              max_buffer_size, max_chunks, idempotency_keys, container_semaphores,
              active_execs, cancelled, calls, tasks, submitted, numCancels, pollSeen,
              pollLater>>

createVars == <<runtime, creates>>

pathVars == <<path_input, path_result>>

batchVars == <<fs, fs_before, batch_ops, batch_idx, rollback_info, batch_phase,
               rollback_failed>>

fileVars == <<fs_log>>

fsVars == <<pathVars, batchVars, fileVars>>

lifeVars == <<attachments, kills, start_failed>>

warmVars == <<warm_container, lock, wtasks>>

reconVars == <<labels, recon>>

engineVars == <<volumes>>

opsVars == <<maintenance, shutdown, engineVars>>

managerVars == <<lifeVars, warmVars, reconVars, opsVars>>

(* the exec subsystem without the clock and the Container table *)
execRest == <<execs, buffers, sequences, buffered_bytes, completed, max_buffer_size,
              max_chunks, idempotency_keys, container_semaphores, active_execs,
              cancelled, calls, tasks, submitted, numCancels, pollSeen, pollLater>>

(* what the exec subsystem never touches *)
otherVars == <<createVars, fsVars, managerVars>>

vars == <<execVars, createVars, fsVars, managerVars>>

----------------------------------------------------------------------------
(* Bounds of the model *)

MaxExecs == 1        \* exec ids allocated in one run
MaxManagers == 1     \* ExecManager instances in one run
MaxTicks == 1        \* clock advances in one run
MaxCancels == 1      \* Cancel calls in one run

(* Program constants *)

MAX_CONCURRENT_EXECS == 4
KeyTTL == 86400
DEFAULT_MAX_CHUNKS == 10000
DEFAULT_MAX_BUFFER_SIZE == 64 * 1024 * 1024
CancelExitCode == 0 - 2
FailureExitCode == 0 - 1
SecondsPerHour == 60 * 60

Tick == KeyTTL + SecondsPerHour   \* the clock advances 25 hours at a time

ExecIds == 1..MaxExecs
ManagerIds == 1..MaxManagers
ContainerIds == {"c_1", "c_missing"}
Keys == {"", "k"}       \* "" is the absent (falsy) idempotency key
CommandExitCodes == {0, 1}
CancelledData == "[CANCELLED]\n"

----------------------------------------------------------------------------
(* Python values *)

None == <<>>
Some(v) == <<v>>
Val(o) == o[1]

EmptyDict == [x \in {} |-> 0]
Put(d, k, v) == [x \in (DOMAIN d) \cup {k} |-> IF x = k THEN v ELSE d[x]]
Del(d, k) == [x \in (DOMAIN d) \ {k} |-> d[x]]
Has(d, k) == k \in DOMAIN d

Max(S) == CHOOSE x \in S : \A y \in S : y <= x
Min(S) == CHOOSE x \in S : \A y \in S : x <= y

Truthy(exit_code) == exit_code # None /\ Val(exit_code) # 0
OrDefault(exit_code, d) == IF Truthy(exit_code) THEN Val(exit_code) ELSE d

----------------------------------------------------------------------------
(* OutputStreamer: each operation maps the streamer's four dictionaries to *)
(* their new values.  A streamer state is the record S.                    *)

Streamer == [buffers |-> buffers, sequences |-> sequences,
             buffered_bytes |-> buffered_bytes, completed |-> completed]

OutputChunk(seq, stream, data, size) ==
    [seq |-> seq, complete |-> FALSE, stream |-> stream, data |-> data,
     size |-> size, exit_code |-> 0, usage |-> {}]

CompletionChunk(seq, exit_code, usage) ==
    [seq |-> seq, complete |-> TRUE, stream |-> "", data |-> "",
     size |-> 0, exit_code |-> exit_code, usage |-> usage]

init_exec(S, e) ==
    IF Has(S.buffers, e) THEN S
    ELSE [buffers |-> Put(S.buffers, e, <<>>),
          sequences |-> Put(S.sequences, e, 0),
          buffered_bytes |-> Put(S.buffered_bytes, e, 0),
          completed |-> Put(S.completed, e, FALSE)]

(* add_output returns the new streamer state and whether it raised         *)
(* KeyError (a dictionary without the exec's entry).                       *)
add_output(S, e, stream, data, size, maxBytes, maxChunks) ==
    LET bytes == IF Has(S.buffered_bytes, e) THEN S.buffered_bytes[e] ELSE 0
        buf == IF Has(S.buffers, e) THEN S.buffers[e] ELSE <<>>
    IN  IF size = 0 THEN [S |-> S, raised |-> FALSE]
        ELSE IF bytes + size > maxBytes
             THEN [S |-> S, raised |-> ~Has(S.buffered_bytes, e)]
        ELSE IF Len(buf) >= maxChunks /\ ~Has(S.buffers, e)
             THEN [S |-> S, raised |-> TRUE]
        ELSE
         LET evict == Len(buf) >= maxChunks
             oldest == buf[1]
             buf1 == IF evict THEN Tail(buf) ELSE buf
             bytesOk == Has(S.buffered_bytes, e)
             bytes1 == IF evict /\ ~oldest.complete THEN bytes - oldest.size ELSE bytes
             S1 == IF evict
                   THEN [S EXCEPT !.buffers = Put(S.buffers, e, buf1),
                                  !.buffered_bytes =
                                      IF bytesOk THEN Put(S.buffered_bytes, e, bytes1)
                                      ELSE S.buffered_bytes]
                   ELSE S
         IN  IF evict /\ ~oldest.complete /\ ~bytesOk
                 THEN [S |-> [S EXCEPT !.buffers = Put(S.buffers, e, buf1)],
                       raised |-> TRUE]
             ELSE IF ~Has(S.sequences, e) THEN [S |-> S1, raised |-> TRUE]
             ELSE
              LET seq == S.sequences[e]
                  S2 == [S1 EXCEPT !.sequences = Put(S1.sequences, e, seq + 1)]
              IN  IF ~Has(S2.buffers, e) THEN [S |-> S2, raised |-> TRUE]
                  ELSE
                   LET S3 == [S2 EXCEPT !.buffers =
                                 Put(S2.buffers, e,
                                     Append(S2.buffers[e],
                                            OutputChunk(seq, stream, data, size)))]
                   IN  IF ~Has(S3.buffered_bytes, e) THEN [S |-> S3, raised |-> TRUE]
                       ELSE [S |-> [S3 EXCEPT !.buffered_bytes =
                                       Put(S3.buffered_bytes, e,
                                           S3.buffered_bytes[e] + size)],
                             raised |-> FALSE]

complete(S, e, exit_code, usage) ==
    LET seq == IF Has(S.sequences, e) THEN S.sequences[e] ELSE 0
        chunk == CompletionChunk(seq, exit_code, usage)
    IN  [S EXCEPT !.sequences = Put(S.sequences, e, seq + 1),
                  !.buffers = Put(S.buffers, e,
                                  IF Has(S.buffers, e) THEN Append(S.buffers[e], chunk)
                                  ELSE <<chunk>>),
                  !.completed = Put(S.completed, e, TRUE)]

(* poll with chunk.seq >= after_seq as its filter *)
poll_mut(S, e, after_seq) ==
    IF ~Has(S.buffers, e) THEN [chunks |-> <<>>, is_complete |-> FALSE]
    ELSE [chunks |-> SelectSeq(S.buffers[e],
                               LAMBDA c : after_seq = None \/ c.seq >= Val(after_seq)),
          is_complete |-> IF Has(S.completed, e) THEN S.completed[e] ELSE FALSE]

(* poll: the chunks after after_seq (None: all), and the completion flag *)
poll(S, e, after_seq) ==
    IF ~Has(S.buffers, e) THEN [chunks |-> <<>>, is_complete |-> FALSE]
    ELSE [chunks |-> SelectSeq(S.buffers[e],
                               LAMBDA c : after_seq = None \/ c.seq > Val(after_seq)),
          is_complete |-> IF Has(S.completed, e) THEN S.completed[e] ELSE FALSE]

cleanup(S, e) ==
    [buffers |-> Del(S.buffers, e), sequences |-> Del(S.sequences, e),
     buffered_bytes |-> Del(S.buffered_bytes, e), completed |-> Del(S.completed, e)]

SetStreamer(S) ==
    /\ buffers' = S.buffers
    /\ sequences' = S.sequences
    /\ buffered_bytes' = S.buffered_bytes
    /\ completed' = S.completed

----------------------------------------------------------------------------
(* DS: the Container and Exec tables.  In a Container row alias and       *)
(* idempotency_key "" stand for NULL; create_container inserts the row     *)
(* with status "stopped".  The callers set persistent, volume_name and     *)
(* last_seen; times before the start of the run are negative.              *)

ContainerRow(docker_id, alias, idempotency_key, idempotency_key_created_at) ==
    [docker_id |-> docker_id, alias |-> alias, idempotency_key |-> idempotency_key,
     idempotency_key_created_at |-> idempotency_key_created_at, status |-> "stopped",
     persistent |-> FALSE, volume_name |-> None, last_seen |-> 0]


NewExecRow(container_id) ==
    [container_id |-> container_id, ended_at |-> None, exit_code |-> None, usage |-> {}]

(* ExecRepository.complete_exec on one row *)
complete_exec_mut(row, exit_code, usage, t) ==
    IF row.ended_at = None THEN [row EXCEPT !.ended_at = Some(t)] ELSE row

complete_exec(row, exit_code, usage, t) ==
    IF row.ended_at = None
    THEN [row EXCEPT !.ended_at = Some(t),
                     !.exit_code = Some(exit_code),
                     !.usage = IF usage # {} THEN usage ELSE @]
    ELSE row

CompleteExecRows(rows, e, exit_code, usage, t) ==
    IF Has(rows, e) THEN [rows EXCEPT ![e] = complete_exec(@, exit_code, usage, t)]
    ELSE rows

(* ExecRepository.get_old_completed *)
get_old_completed(rows, hours, t) ==
    {e \in DOMAIN rows :
        /\ rows[e].ended_at # None
        /\ Val(rows[e].ended_at) < t - hours * SecondsPerHour}

----------------------------------------------------------------------------
(* ExecManager instances.  ExecManager() builds an instance with empty     *)
(* dictionaries; the tool handlers build one per request.                  *)

NumManagers == Cardinality(DOMAIN idempotency_keys)

Ensure(d, m, empty) == IF Has(d, m) THEN d ELSE Put(d, m, empty)

(* _get_container_semaphore: the permits of one manager with the           *)
(* container's semaphore in place                                          *)
get_container_semaphore(sems, container_id) ==
    IF Has(sems, container_id) THEN sems
    ELSE Put(sems, container_id, MAX_CONCURRENT_EXECS)

NextExecId == Cardinality(DOMAIN calls) + 1

TaskDone(t) == t.pc \in {"done", "failed", "cancelled"}

NewTask == [pc |-> "created", must_cancel |-> FALSE, exit_code |-> None, usage |-> {}]

(* ExecManager.execute, lines 130-151: the idempotency check, the exec id  *)
(* and the key's entry, up to the first database call.  m may be a new     *)
(* instance.                                                               *)
Execute(m, container_id, key, limit) ==
    LET ik == Ensure(idempotency_keys, m, EmptyDict)
        known == key # "" /\ Has(ik[m], key)
        hit == known /\ now - ik[m][key][2] < KeyTTL
        e == NextExecId
    IN  /\ container_semaphores' = Ensure(container_semaphores, m, EmptyDict)
        /\ active_execs' = Ensure(active_execs, m, {})
        /\ cancelled' = Ensure(cancelled, m, {})
        /\ IF hit
           THEN /\ idempotency_keys' = ik
                /\ submitted' = submitted \cup {<<key, ik[m][key][1], now>>}
                /\ UNCHANGED calls
           ELSE /\ e <= limit
                /\ idempotency_keys' =
                       [ik EXCEPT ![m] = IF key # "" THEN Put(@, key, <<e, now>>) ELSE @]
                /\ calls' = Put(calls, e, [mgr |-> m, key |-> key,
                                           container_id |-> container_id,
                                           pc |-> "verify", at |-> now])
                /\ UNCHANGED submitted
        /\ UNCHANGED <<otherVars, now, containers, execs, buffers, sequences, buffered_bytes,
                       completed, max_buffer_size, max_chunks, tasks, numCancels,
                       pollSeen, pollLater>>

(* server.exec_start: a new ExecManager for this request, then execute *)
ExecStart(container_id, key, limit, managerLimit) ==
    /\ NumManagers < managerLimit
    /\ Execute(NumManagers + 1, container_id, key, limit)

(* ExecManager.execute on an instance that already exists *)
ExecuteAgain(m, container_id, key, limit) ==
    /\ Has(idempotency_keys, m)
    /\ Execute(m, container_id, key, limit)

(* ExecManager.execute, lines 153-172: the container is looked up and the  *)
(* Exec row committed, or ContainerNotFoundError raised                    *)
ExecuteVerify(e) ==
    /\ Has(calls, e) /\ calls[e].pc = "verify"
    /\ IF Has(containers, calls[e].container_id)
       THEN /\ execs' = Put(execs, e, NewExecRow(calls[e].container_id))
            /\ calls' = [calls EXCEPT ![e].pc = "spawn"]
       ELSE /\ calls' = [calls EXCEPT ![e].pc = "raised"]
            /\ UNCHANGED execs
    /\ UNCHANGED <<otherVars, now, containers, buffers, sequences, buffered_bytes, completed,
                   max_buffer_size, max_chunks, idempotency_keys,
                   container_semaphores, active_execs, cancelled, tasks, submitted,
                   numCancels, pollSeen, pollLater>>

(* ExecManager.execute, lines 174-195: the worker task is created and      *)
(* registered, the streamer initialised, the exec id returned              *)
ExecuteSpawn(e) ==
    /\ Has(calls, e) /\ calls[e].pc = "spawn"
    /\ tasks' = Put(tasks, e, NewTask)
    /\ active_execs' = [active_execs EXCEPT ![calls[e].mgr] = @ \cup {e}]
    /\ SetStreamer(init_exec(Streamer, e))
    /\ calls' = [calls EXCEPT ![e].pc = "returned"]
    /\ submitted' = IF calls[e].key # ""
                    THEN submitted \cup {<<calls[e].key, e, calls[e].at>>}
                    ELSE submitted
    /\ UNCHANGED <<otherVars, now, containers, execs, max_buffer_size, max_chunks,
                   idempotency_keys, container_semaphores, cancelled, numCancels,
                   pollSeen, pollLater>>

----------------------------------------------------------------------------
(* ExecManager._execute_command: the worker task of exec e *)

Release(m, container_id) ==
    container_semaphores' =
        [container_semaphores EXCEPT ![m][container_id] = @ + 1]

NormalUsage == {"wall_ms", "stdout_bytes", "stderr_bytes"}
ErrorUsage == {"wall_ms"}
CancelledUsage == {"cancelled"}

(* The task's first step: a cancelled task never runs; otherwise it takes  *)
(* the container's semaphore of its own manager, or waits for it.          *)
TaskStart(e) ==
    /\ Has(tasks, e) /\ tasks[e].pc = "created"
    /\ LET m == calls[e].mgr
           c == calls[e].container_id
           sems == get_container_semaphore(container_semaphores[m], c)
       IN  IF tasks[e].must_cancel
           THEN /\ tasks' = [tasks EXCEPT ![e].pc = "cancelled", ![e].must_cancel = FALSE]
                /\ UNCHANGED container_semaphores
           ELSE IF sems[c] > 0
           THEN /\ container_semaphores' =
                       [container_semaphores EXCEPT ![m] = [sems EXCEPT ![c] = @ - 1]]
                /\ tasks' = [tasks EXCEPT ![e].pc = "admitted"]
           ELSE /\ container_semaphores' = [container_semaphores EXCEPT ![m] = sems]
                /\ tasks' = [tasks EXCEPT ![e].pc = "waiting"]
    /\ UNCHANGED <<otherVars, now, containers, execs, buffers, sequences, buffered_bytes,
                   completed, max_buffer_size, max_chunks, idempotency_keys,
                   active_execs, cancelled, calls, submitted, numCancels, pollSeen,
                   pollLater>>

(* A task waiting on the semaphore gets a permit, or its cancellation *)
TaskAcquire(e) ==
    /\ Has(tasks, e) /\ tasks[e].pc = "waiting"
    /\ LET m == calls[e].mgr
           c == calls[e].container_id
       IN  IF tasks[e].must_cancel
           THEN /\ tasks' = [tasks EXCEPT ![e].pc = "cancelled", ![e].must_cancel = FALSE]
                /\ UNCHANGED container_semaphores
           ELSE /\ container_semaphores[m][c] > 0
                /\ container_semaphores' =
                       [container_semaphores EXCEPT ![m][c] = @ - 1]
                /\ tasks' = [tasks EXCEPT ![e].pc = "admitted"]
    /\ UNCHANGED <<otherVars, now, containers, execs, buffers, sequences, buffered_bytes,
                   completed, max_buffer_size, max_chunks, idempotency_keys,
                   active_execs, cancelled, calls, submitted, numCancels, pollSeen,
                   pollLater>>

(* Lines 225-303: the container lookup returns, exec_run runs the command  *)
(* to its end (a blocking call), the output is streamed and the completion *)
(* chunk emitted.  A path that reaches the finally block with usage        *)
(* unbound raises UnboundLocalError there and ends the task.  The clock   *)
(* is left to the caller: the call lasts as long as the command.           *)
execute_command(e, outcome, code, stdout_size, stderr_size) ==
    /\ Has(tasks, e) /\ tasks[e].pc = "admitted"
    /\ LET m == calls[e].mgr
           c == calls[e].container_id
           r1 == add_output(Streamer, e, "stdout", "out", stdout_size,
                            max_buffer_size, max_chunks)
           r2 == add_output(r1.S, e, "stderr", "err", stderr_size,
                            max_buffer_size, max_chunks)
       IN  IF tasks[e].must_cancel \/ ~Has(containers, c)
           THEN /\ tasks' = [tasks EXCEPT ![e].pc = "failed", ![e].must_cancel = FALSE]
                /\ Release(m, c)
                /\ UNCHANGED <<buffers, sequences, buffered_bytes, completed>>
           ELSE IF outcome # "ok"
           THEN /\ tasks' = [tasks EXCEPT ![e].pc = "completing",
                                          ![e].exit_code = Some(FailureExitCode),
                                          ![e].usage = ErrorUsage]
                /\ SetStreamer(complete(Streamer, e, FailureExitCode, ErrorUsage))
                /\ UNCHANGED container_semaphores
           ELSE IF r1.raised
           THEN /\ tasks' = [tasks EXCEPT ![e].pc = "failed", ![e].exit_code = Some(code)]
                /\ SetStreamer(r1.S)
                /\ Release(m, c)
           ELSE IF r2.raised
           THEN /\ tasks' = [tasks EXCEPT ![e].pc = "failed", ![e].exit_code = Some(code)]
                /\ SetStreamer(r2.S)
                /\ Release(m, c)
           ELSE /\ tasks' = [tasks EXCEPT ![e].pc = "completing",
                                          ![e].exit_code = Some(code),
                                          ![e].usage = NormalUsage]
                /\ SetStreamer(complete(r2.S, e, code, NormalUsage))
                /\ UNCHANGED container_semaphores
    /\ UNCHANGED <<otherVars, containers, execs, max_buffer_size, max_chunks,
                   idempotency_keys, active_execs, cancelled, calls, submitted,
                   numCancels, pollSeen, pollLater>>

(* the worker's run with a command that ends at once *)
TaskRun(e, outcome, code, stdout_size, stderr_size) ==
    /\ execute_command(e, outcome, code, stdout_size, stderr_size)
    /\ UNCHANGED now

(* Lines 305-312: the Exec row is completed, the task unregistered, the    *)
(* semaphore released.  A cancellation delivered here interrupts the       *)
(* database call: the update is committed or not, and the task stays       *)
(* registered.                                                             *)
TaskFinish(e, committed) ==
    /\ Has(tasks, e) /\ tasks[e].pc = "completing"
    /\ LET m == calls[e].mgr
           c == calls[e].container_id
           rows == CompleteExecRows(execs, e, OrDefault(tasks[e].exit_code, FailureExitCode),
                                    tasks[e].usage, now)
       IN  IF tasks[e].must_cancel
           THEN /\ tasks' = [tasks EXCEPT ![e].pc = "cancelled", ![e].must_cancel = FALSE]
                /\ execs' = IF committed THEN rows ELSE execs
                /\ UNCHANGED active_execs
           ELSE /\ committed
                /\ tasks' = [tasks EXCEPT ![e].pc = "done"]
                /\ execs' = rows
                /\ active_execs' = [active_execs EXCEPT ![m] = @ \ {e}]
    /\ Release(calls[e].mgr, calls[e].container_id)
    /\ UNCHANGED <<otherVars, now, containers, buffers, sequences, buffered_bytes, completed,
                   max_buffer_size, max_chunks, idempotency_keys, cancelled, calls,
                   submitted, numCancels, pollSeen, pollLater>>

----------------------------------------------------------------------------
(* ExecManager.cancel.  active is the calling instance's _active_execs:    *)
(* empty for the instance a tool handler has just built.                   *)

CancelBody(e, active) ==
    LET registered == e \in active
        r == add_output(Streamer, e, "stderr", CancelledData, Len(CancelledData),
                        max_buffer_size, max_chunks)
    IN  /\ Has(execs, e)
        /\ numCancels < MaxCancels
        /\ numCancels' = numCancels + 1
        /\ tasks' = IF registered /\ ~TaskDone(tasks[e])
                    THEN [tasks EXCEPT ![e].must_cancel = TRUE]
                    ELSE tasks
        /\ IF registered
           THEN IF r.raised THEN SetStreamer(r.S)
                ELSE SetStreamer(complete(r.S, e, CancelExitCode, CancelledUsage))
           ELSE SetStreamer(complete(Streamer, e, CancelExitCode, CancelledUsage))

(* ExecManager.cancel on the instance m *)
Cancel(m, e) ==
    /\ Has(active_execs, m)
    /\ CancelBody(e, active_execs[m])
    /\ cancelled' = [cancelled EXCEPT ![m] = @ \cup {e}]
    /\ UNCHANGED <<otherVars, now, containers, execs, max_buffer_size, max_chunks,
                   idempotency_keys, container_semaphores, active_execs, calls,
                   submitted, pollSeen, pollLater>>

(* server.exec_cancel: a new ExecManager for this request, dropped after it *)
ExecCancel(e) ==
    /\ CancelBody(e, {})
    /\ UNCHANGED <<otherVars, now, containers, execs, max_buffer_size, max_chunks,
                   idempotency_keys, container_semaphores, active_execs, cancelled,
                   calls, submitted, pollSeen, pollLater>>

----------------------------------------------------------------------------
(* Poll.  The history variables record what pollers have been given.       *)

ChunkSeqs(chunks) == {chunks[i].seq : i \in DOMAIN chunks}
CompletionSeqs(chunks) == {chunks[i].seq : i \in {j \in DOMAIN chunks : chunks[j].complete}}

Observe(e, chunks) ==
    IF Has(pollSeen, e)
    THEN /\ pollLater' = IF chunks = <<>> THEN pollLater
                         ELSE Put(pollLater, e,
                                  Max(ChunkSeqs(chunks) \cup
                                      (IF Has(pollLater, e) THEN {pollLater[e]} ELSE {})))
         /\ UNCHANGED pollSeen
    ELSE /\ pollSeen' = IF CompletionSeqs(chunks) = {} THEN pollSeen
                        ELSE Put(pollSeen, e, Min(CompletionSeqs(chunks)))
         /\ UNCHANGED pollLater

(* server.exec_poll: the streamer is polled directly *)
ExecPoll(e, after_seq) ==
    /\ Observe(e, poll(Streamer, e, after_seq).chunks)
    /\ UNCHANGED <<otherVars, now, containers, execs, buffers, sequences, buffered_bytes,
                   completed, max_buffer_size, max_chunks, idempotency_keys,
                   container_semaphores, active_execs, cancelled, calls, tasks,
                   submitted, numCancels>>

(* ExecManager.poll_output: ExecNotFoundError unless the Exec row exists *)
PollOutput(e, after_seq) ==
    /\ Has(execs, e)
    /\ ExecPoll(e, after_seq)

----------------------------------------------------------------------------
(* Retention *)

RECURSIVE CleanupAll(_, _)
CleanupAll(S, es) ==
    IF es = {} THEN S
    ELSE LET e == CHOOSE x \in es : TRUE IN CleanupAll(cleanup(S, e), es \ {e})

(* ExecManager.cleanup_old_execs *)
CleanupOldExecs(hours) ==
    LET old == get_old_completed(execs, hours, now)
    IN  /\ old # {}
        /\ SetStreamer(CleanupAll(Streamer, old))
        /\ execs' = [x \in (DOMAIN execs) \ old |-> execs[x]]
        /\ UNCHANGED <<otherVars, now, containers, max_buffer_size, max_chunks, idempotency_keys,
                       container_semaphores, active_execs, cancelled, calls, tasks,
                       submitted, numCancels, pollSeen, pollLater>>

(* ExecManager.cleanup_idempotency_keys *)
CleanupIdempotencyKeys(m, max_age_hours) ==
    LET cutoff == now - max_age_hours * SecondsPerHour
        keys_to_delete == {k \in DOMAIN idempotency_keys[m] :
                              idempotency_keys[m][k][2] < cutoff}
    IN  /\ keys_to_delete # {}
        /\ idempotency_keys' =
               [idempotency_keys EXCEPT ![m] =
                   [k \in (DOMAIN @) \ keys_to_delete |-> @[k]]]
        /\ UNCHANGED <<otherVars, now, containers, execs, buffers, sequences, buffered_bytes,
                       completed, max_buffer_size, max_chunks, container_semaphores,
                       active_execs, cancelled, calls, tasks, submitted, numCancels,
                       pollSeen, pollLater>>

(* Time passes *)
AdvanceClock ==
    /\ now < MaxTicks * Tick
    /\ now' = now + Tick
    /\ UNCHANGED <<otherVars, containers, execs, buffers, sequences, buffered_bytes, completed,
                   max_buffer_size, max_chunks, idempotency_keys,
                   container_semaphores, active_execs, cancelled, calls, tasks,
                   submitted, numCancels, pollSeen, pollLater>>

----------------------------------------------------------------------------
(* The exec subsystem: one container row, requests and library calls *)

RetentionHours == KeyTTL \div SecondsPerHour
AfterSeqs == {None, Some(0)}
OutputCases == {<<0, 0>>, <<1, 1>>}
Outcomes == {"ok", "NotFound", "APIError"}

(* no exec submitted, no create, attach or kill call made *)
InitExec ==
    /\ now = 0
    /\ creates = EmptyDict
    /\ execs = EmptyDict
    /\ buffers = EmptyDict
    /\ sequences = EmptyDict
    /\ buffered_bytes = EmptyDict
    /\ completed = EmptyDict
    /\ max_buffer_size = DEFAULT_MAX_BUFFER_SIZE
    /\ max_chunks = DEFAULT_MAX_CHUNKS
    /\ idempotency_keys = EmptyDict
    /\ container_semaphores = EmptyDict
    /\ active_execs = EmptyDict
    /\ cancelled = EmptyDict
    /\ calls = EmptyDict
    /\ tasks = EmptyDict
    /\ submitted = {}
    /\ numCancels = 0
    /\ pollSeen = EmptyDict
    /\ pollLater = EmptyDict
    /\ attachments = EmptyDict
    /\ kills = EmptyDict
    /\ start_failed = {}

(* the warm pool is not started (warm_pool_enabled is off) *)
InitWarmIdle ==
    /\ warm_container = None
    /\ lock = None
    /\ wtasks = EmptyDict

(* no reconcile(), maintenance run or shutdown has begun *)
(* the volumes of the persistent containers of the table *)
PersistVolumes(rows) ==
    {Val(rows[c].volume_name) :
        c \in {x \in DOMAIN rows : rows[x].persistent /\ rows[x].volume_name # None}}

InitReconIdle ==
    /\ labels = EmptyDict
    /\ recon = [pc |-> "idle"]
    /\ maintenance = None
    /\ shutdown = [pc |-> "idle"]
    /\ volumes = PersistVolumes(containers)

(* one running container, c_1 *)
InitServices ==
    /\ containers = [c \in {"c_1"} |->
                        [ContainerRow("d_1", "", "", None) EXCEPT !.status = "running"]]
    /\ runtime = {"d_1"}
    /\ InitExec
    /\ InitWarmIdle
    /\ InitReconIdle

InitNoBatch ==
    /\ fs = EmptyDict
    /\ fs_before = EmptyDict
    /\ batch_ops = <<>>
    /\ batch_idx = 1
    /\ rollback_info = <<>>
    /\ batch_phase = "idle"
    /\ rollback_failed = FALSE
    /\ fs_log = <<>>

Init ==
    /\ InitServices
    /\ path_input = <<>>
    /\ path_result = None
    /\ InitNoBatch

(* Submit without keys, the workers, Cancel and retention *)
Next ==
    \/ \E c \in ContainerIds : ExecStart(c, "", MaxExecs, MaxManagers)
    \/ \E e \in ExecIds : ExecuteVerify(e)
    \/ \E e \in ExecIds : ExecuteSpawn(e)
    \/ \E e \in ExecIds : TaskStart(e)
    \/ \E e \in ExecIds, o \in Outcomes, code \in CommandExitCodes, out \in OutputCases :
          TaskRun(e, o, code, out[1], out[2])
    \/ \E e \in ExecIds, committed \in BOOLEAN : TaskFinish(e, committed)
    \/ \E m \in ManagerIds, e \in ExecIds : Cancel(m, e)
    \/ \E e \in ExecIds : ExecCancel(e)
    \/ CleanupOldExecs(RetentionHours)
    \/ AdvanceClock

Spec == Init /\ [][Next]_vars

(* The same with the pollers *)
NextPoll ==
    \/ Next
    \/ \E e \in ExecIds, a \in AfterSeqs : ExecPoll(e, a)
    \/ \E e \in ExecIds, a \in AfterSeqs : PollOutput(e, a)

SpecPoll == Init /\ [][NextPoll]_vars

(* Submit with idempotency keys, on new and on existing instances *)
MaxKeyedExecs == 2
MaxKeyedManagers == 2

NextKeyed ==
    \/ \E c \in ContainerIds, k \in Keys : ExecStart(c, k, MaxKeyedExecs, MaxKeyedManagers)
    \/ \E m \in 1..MaxKeyedManagers, c \in ContainerIds, k \in Keys :
          ExecuteAgain(m, c, k, MaxKeyedExecs)
    \/ \E e \in 1..MaxKeyedExecs : ExecuteVerify(e)
    \/ \E e \in 1..MaxKeyedExecs : ExecuteSpawn(e)
    \/ \E m \in 1..MaxKeyedManagers :
          Has(idempotency_keys, m) /\ CleanupIdempotencyKeys(m, RetentionHours)
    \/ AdvanceClock

SpecKeyed == Init /\ [][NextKeyed]_vars

(* Admission: more execs of one container than the semaphore has permits *)
MaxAdmitExecs == 5
MaxAdmitManagers == 2

NextAdmit ==
    \/ ExecStart("c_1", "", MaxAdmitExecs, MaxAdmitManagers)
    \/ \E m \in 1..MaxAdmitManagers : ExecuteAgain(m, "c_1", "", MaxAdmitExecs)
    \/ \E e \in 1..MaxAdmitExecs : ExecuteVerify(e)
    \/ \E e \in 1..MaxAdmitExecs : ExecuteSpawn(e)
    \/ \E e \in 1..MaxAdmitExecs : TaskStart(e)
    \/ \E e \in 1..MaxAdmitExecs : TaskAcquire(e)
    \/ \E e \in 1..MaxAdmitExecs : TaskRun(e, "ok", 0, 0, 0)
    \/ \E e \in 1..MaxAdmitExecs : TaskFinish(e, TRUE)

SpecAdmit == Init /\ [][NextAdmit]_vars

----------------------------------------------------------------------------
(* Properties of the exec subsystem *)

CompletionIndexes(e) == {i \in DOMAIN buffers[e] : buffers[e][i].complete}

(* C1: once a Poll has returned a completion chunk for an exec, no later   *)
(* Poll of that exec returns a chunk with a higher seq.                    *)
C1_CompletionIsLast ==
    \A e \in DOMAIN pollSeen : Has(pollLater, e) => pollLater[e] <= pollSeen[e]

(* C2: two Submit calls with the same idempotency key less than 24h apart  *)
(* return the same exec id, whichever request they arrive on.              *)
C2_SameKeySameExec ==
    \A r1 \in submitted : \A r2 \in submitted :
        (r1[1] = r2[1] /\ r1[3] - r2[3] < KeyTTL /\ r2[3] - r1[3] < KeyTTL)
            => r1[2] = r2[2]

(* C4: at most MAX_CONCURRENT_EXECS execs of one container hold a place in *)
(* the runtime (are between taking and releasing the admission semaphore), *)
(* whichever request submitted them.                                       *)
Admitted(c) ==
    {e \in DOMAIN tasks :
        tasks[e].pc \in {"admitted", "completing"} /\ calls[e].container_id = c}

C8_RowMatchesChunk ==
    \A e \in DOMAIN execs :
        (execs[e].ended_at # None /\ Has(buffers, e) /\ CompletionIndexes(e) # {})
            => buffers[e][Min(CompletionIndexes(e))].exit_code = Val(execs[e].exit_code)

(* C9: every Exec row has ended_at = null exactly when exit_code = null,   *)
(* and once set neither value changes while the row exists.                *)
ExecRowIff ==
    \A e \in DOMAIN execs : (execs[e].ended_at = None) <=> (execs[e].exit_code = None)

ExecRowImmutable ==
    \A e \in (DOMAIN execs) \cap (DOMAIN execs') :
        execs[e].ended_at # None =>
            /\ execs'[e].ended_at = execs[e].ended_at
            /\ execs'[e].exit_code = execs[e].exit_code

C9_EndedIffExitCode == []ExecRowIff /\ [][ExecRowImmutable]_vars

(* a completed row whose exec was cancelled as well *)
C9_Witness ==
    \E e \in DOMAIN execs :
        /\ execs[e].ended_at # None
        /\ tasks[e].pc = "done"
        /\ numCancels > 0
        /\ Has(buffers, e) /\ Cardinality(CompletionIndexes(e)) >= 2

(* C10: the output buffer of an exec holds at most one completion chunk.   *)
C10_AtMostOneCompletion ==
    \A e \in DOMAIN buffers : Cardinality(CompletionIndexes(e)) <= 1

(* C11: after Cancel of an exec that had not completed, a Poll of the exec *)
(* yields a [CANCELLED] stderr chunk and then, as the final chunk, a        *)
(* completion chunk with exit_code -2 and usage.cancelled.                  *)
C11_CancelledThenFinal ==
    \A e \in DOMAIN buffers :
        LET chunks == poll(Streamer, e, None).chunks
            done == {i \in DOMAIN chunks : chunks[i].complete}
        IN  (done # {} /\ chunks[Min(done)].exit_code = CancelExitCode)
                => /\ Min(done) = Len(chunks)
                   /\ "cancelled" \in chunks[Min(done)].usage
                   /\ \E i \in 1..(Min(done) - 1) :
                         /\ chunks[i].stream = "stderr"
                         /\ chunks[i].data = CancelledData

(* C12: a Cancel of an exec that has already completed adds no chunk to    *)
(* its buffer and leaves its completion flag and its Exec row as they were. *)
CancelOfCompletedIsNoOp ==
    numCancels' # numCancels =>
        \A e \in DOMAIN completed :
            completed[e] =>
                /\ Has(buffers', e) /\ buffers'[e] = buffers[e]
                /\ Has(completed', e) /\ completed'[e] = completed[e]
                /\ execs' = execs

C12_CancelCompletedNoOp == [][CancelOfCompletedIsNoOp]_vars

(* C13: an idempotency key never maps to an exec whose Submit failed with  *)
(* ContainerNotFound, and every exec id a Submit returned has an Exec row.  *)
C13_KeyImpliesRow ==
    /\ \A m \in DOMAIN idempotency_keys : \A k \in DOMAIN idempotency_keys[m] :
          calls[idempotency_keys[m][k][1]].pc # "raised"
    /\ \A r \in submitted : Has(execs, r[2])

----------------------------------------------------------------------------
(* ContainerManager.create_container.  Its suspension points are the DS    *)
(* sessions and the image resolution; docker's create is a blocking call.  *)

MaxCreates == 3      \* create_container calls in one run

CreateIds == 1..MaxCreates
Aliases == {"", "a"}
SpawnKeyTTL == 24 * SecondsPerHour

(* uuid4 and the engine hand out fresh ids *)
NewContainerId(n) == "c_new" \o ToString(n)
NewDockerId(n) == "d_new" \o ToString(n)

(* ContainerRepository.get_by_idempotency_key: the row holding the key *)
get_by_idempotency_key(rows, key) ==
    LET found == {c \in DOMAIN rows : rows[c].idempotency_key = key}
    IN  IF found = {} THEN None ELSE Some(CHOOSE c \in found : TRUE)

(* ContainerRepository.get_by_alias *)
get_by_alias(rows, alias) ==
    LET found == {c \in DOMAIN rows : rows[c].alias = alias}
    IN  IF found = {} THEN None ELSE Some(CHOOSE c \in found : TRUE)

(* the unique index ix_containers_idempotency_key; NULLs never conflict *)
KeyIndexViolation(rows, row) ==
    /\ row.idempotency_key # ""
    /\ \E c \in DOMAIN rows : rows[c].idempotency_key = row.idempotency_key

(* the unique constraints of the containers table: id, docker_id, alias *)
UniqueViolation(rows, id, row) ==
    \/ Has(rows, id)
    \/ \E c \in DOMAIN rows :
          \/ rows[c].docker_id = row.docker_id
          \/ row.alias # "" /\ rows[c].alias = row.alias

NewCreate(key, alias) ==
    [pc |-> "resolve", idempotency_key |-> key, alias |-> alias, started |-> now,
     container_id |-> None, docker_id |-> None, error |-> "none",
     persistent |-> FALSE]

(* a volume name: its fixed prefix and the container id that follows it *)
VolumeName(prefix, container_id) == [prefix |-> prefix, id |-> container_id]

(* create_container with persistent and no volume name *)
volume_config_mut(container_id, persistent) == None

(* create_container, the volume configuration: the row's volume_name *)
volume_config(container_id, persistent) ==
    IF persistent THEN Some(VolumeName("mcpdevbench_persist_", container_id))
    ELSE None

(* create_container up to the end of the idempotency lookup *)
CreateContainer(key, alias) ==
    LET n == Cardinality(DOMAIN creates) + 1
        existing == get_by_idempotency_key(containers, key)
        hit == /\ key # ""
               /\ existing # None
               /\ containers[Val(existing)].idempotency_key_created_at # None
               /\ now - Val(containers[Val(existing)].idempotency_key_created_at)
                      < SpawnKeyTTL
    IN  /\ n <= MaxCreates
        /\ creates' = Put(creates, n,
               IF hit
               THEN [NewCreate(key, alias) EXCEPT !.pc = "returned",
                                                  !.container_id = existing]
               ELSE NewCreate(key, alias))
        /\ UNCHANGED <<execVars, runtime, fsVars, managerVars>>

(* image resolution, the fresh container id, the alias check *)
CreateResolve(n, allowed) ==
    /\ Has(creates, n) /\ creates[n].pc = "resolve"
    /\ LET alias == creates[n].alias
       IN  creates' = [creates EXCEPT ![n] =
               IF ~allowed
               THEN [@ EXCEPT !.pc = "raised", !.error = "ImagePolicyError"]
               ELSE IF alias # "" /\ get_by_alias(containers, alias) # None
               THEN [@ EXCEPT !.pc = "raised", !.error = "ContainerAlreadyExistsError",
                              !.container_id = Some(NewContainerId(n))]
               ELSE [@ EXCEPT !.pc = "docker",
                              !.container_id = Some(NewContainerId(n))]]
    /\ UNCHANGED <<execVars, runtime, fsVars, managerVars>>

(* docker_client.containers.create: the container exists, or APIError.    *)
(* `persistent`, a parameter of the call, is first used in this step.     *)
CreateDocker(n, ok, persistent) ==
    /\ Has(creates, n) /\ creates[n].pc = "docker"
    /\ IF ok
       THEN /\ runtime' = runtime \cup {NewDockerId(n)}
            /\ volumes' = volumes \cup
                   IF persistent
                   THEN {VolumeName("mcpdevbench_persist_", Val(creates[n].container_id))}
                   ELSE {}
            /\ creates' = [creates EXCEPT ![n].pc = "commit",
                                          ![n].docker_id = Some(NewDockerId(n)),
                                          ![n].persistent = persistent]
       ELSE /\ creates' = [creates EXCEPT ![n].pc = "raised",
                                          ![n].error = "DockerAPIError"]
            /\ UNCHANGED <<runtime, volumes>>
    /\ UNCHANGED <<execVars, fsVars, lifeVars, warmVars, reconVars, maintenance, shutdown>>

(* the session that inserts the row: committed, or IntegrityError, which   *)
(* the `except APIError` clause does not catch                             *)
CreateCommit(n) ==
    /\ Has(creates, n) /\ creates[n].pc = "commit"
    /\ LET id == Val(creates[n].container_id)
           key == creates[n].idempotency_key
           row == [ContainerRow(Val(creates[n].docker_id), creates[n].alias, key,
                                IF key # "" THEN Some(now) ELSE None)
                      EXCEPT !.persistent = creates[n].persistent,
                             !.volume_name = volume_config(id, creates[n].persistent),
                             !.last_seen = now]
       IN  IF UniqueViolation(containers, id, row) \/ KeyIndexViolation(containers, row)
           THEN /\ creates' = [creates EXCEPT ![n].pc = "raised",
                                              ![n].error = "IntegrityError"]
                /\ UNCHANGED containers
           ELSE /\ containers' = Put(containers, id, row)
                /\ creates' = [creates EXCEPT ![n].pc = "returned"]
    /\ UNCHANGED <<now, execs, buffers, sequences, buffered_bytes, completed,
                   max_buffer_size, max_chunks, idempotency_keys,
                   container_semaphores, active_execs, cancelled, calls, tasks,
                   submitted, numCancels, pollSeen, pollLater, runtime, fsVars,
                   managerVars>>

NextCreate ==
    \/ \E k \in Keys, a \in Aliases : CreateContainer(k, a)
    \/ \E n \in CreateIds, allowed \in BOOLEAN : CreateResolve(n, allowed)
    \/ \E n \in CreateIds, ok \in BOOLEAN, p \in BOOLEAN : CreateDocker(n, ok, p)
    \/ \E n \in CreateIds : CreateCommit(n)
    \/ AdvanceClock

SpecCreate == Init /\ [][NextCreate]_vars

(* C3: all Create calls made with one idempotency key within 24h of each   *)
(* other, concurrent ones included, return the same container id: when one *)
(* of them returned a container, no other ends differently, unless the     *)
(* engine or the image policy refused it.                                  *)
C3_SameKeySameContainer ==
    \A a \in DOMAIN creates : \A b \in DOMAIN creates :
        ( /\ creates[a].idempotency_key # ""
          /\ creates[b].idempotency_key = creates[a].idempotency_key
          /\ creates[a].pc = "returned"
          /\ creates[b].pc \in {"returned", "raised"}
          /\ creates[b].error \notin {"DockerAPIError", "ImagePolicyError"}
          /\ creates[b].started - creates[a].started < SpawnKeyTTL
          /\ creates[a].started - creates[b].started < SpawnKeyTTL )
            => /\ creates[b].pc = "returned"
               /\ creates[b].container_id = creates[a].container_id

(* C7: a Create that failed leaves no runtime container behind: whatever   *)
(* it created in the engine has been removed when the error surfaces.      *)
C7_NoOrphanAfterFailure ==
    \A n \in DOMAIN creates :
        (creates[n].pc = "raised" /\ creates[n].docker_id # None)
            => Val(creates[n].docker_id) \notin runtime

----------------------------------------------------------------------------
(* FilesystemManager._validate_path.  A path is a sequence of characters.  *)

MaxPieces == 4       \* pieces an input path is put together from

WORKSPACE_ROOT == <<"/", "w", "o", "r", "k", "s", "p", "a", "c", "e">>
Sep == <<"/">>
Dot == <<".">>
DotDot == <<".", ".">>

(* str.startswith *)
StartsWith(s, prefix) ==
    Len(s) >= Len(prefix) /\ SubSeq(s, 1, Len(prefix)) = prefix

(* str.split("/") *)
RECURSIVE Split(_)
Split(s) ==
    LET at == {i \in 1..Len(s) : s[i] = "/"}
    IN  IF at = {} THEN <<s>>
        ELSE <<SubSeq(s, 1, Min(at) - 1)>> \o Split(SubSeq(s, Min(at) + 1, Len(s)))

(* "/".join *)
RECURSIVE Join(_)
Join(comps) ==
    IF comps = <<>> THEN <<>>
    ELSE IF Len(comps) = 1 THEN comps[1]
    ELSE comps[1] \o Sep \o Join(Tail(comps))

(* posixpath.join(a, b) *)
posixpath_join(a, b) ==
    IF StartsWith(b, Sep) THEN b
    ELSE IF a = <<>> \/ a[Len(a)] = "/" THEN a \o b
    ELSE a \o Sep \o b

(* the loop of posixpath.normpath over the components *)
RECURSIVE NormComps(_, _, _)
NormComps(comps, new_comps, initial_slashes) ==
    IF comps = <<>> THEN new_comps
    ELSE LET comp == Head(comps)
             rest == Tail(comps)
         IN  IF comp = <<>> \/ comp = Dot
             THEN NormComps(rest, new_comps, initial_slashes)
             ELSE IF \/ comp # DotDot
                     \/ (initial_slashes = 0 /\ new_comps = <<>>)
                     \/ (new_comps # <<>> /\ new_comps[Len(new_comps)] = DotDot)
             THEN NormComps(rest, Append(new_comps, comp), initial_slashes)
             ELSE IF new_comps # <<>>
             THEN NormComps(rest, SubSeq(new_comps, 1, Len(new_comps) - 1),
                            initial_slashes)
             ELSE NormComps(rest, new_comps, initial_slashes)

(* posixpath.normpath *)
posixpath_normpath(path) ==
    IF path = <<>> THEN Dot
    ELSE LET initial_slashes ==
                 IF ~StartsWith(path, Sep) THEN 0
                 ELSE IF StartsWith(path, Sep \o Sep)
                         /\ ~StartsWith(path, Sep \o Sep \o Sep)
                 THEN 2 ELSE 1
             joined == Join(NormComps(Split(path), <<>>, initial_slashes))
             result == IF initial_slashes = 2 THEN Sep \o Sep \o joined
                       ELSE IF initial_slashes = 1 THEN Sep \o joined
                       ELSE joined
         IN  IF result = <<>> THEN Dot ELSE result

(* _validate_path that puts every path, absolute ones too, under the root *)
validate_path_mut(path) ==
    LET absolute == WORKSPACE_ROOT \o Sep \o path
        normalized == posixpath_normpath(absolute)
        comps == Split(normalized)
    IN  IF ~StartsWith(normalized, WORKSPACE_ROOT)
        THEN [raised |-> TRUE, value |-> <<>>]
        ELSE IF \E i \in 1..Len(comps) : comps[i] = DotDot
        THEN [raised |-> TRUE, value |-> <<>>]
        ELSE [raised |-> FALSE, value |-> normalized]

(* _validate_path: the normalized path, or PathSecurityError *)
validate_path(path) ==
    LET absolute == IF ~StartsWith(path, Sep) THEN posixpath_join(WORKSPACE_ROOT, path)
                    ELSE path
        normalized == posixpath_normpath(absolute)
        comps == Split(normalized)
    IN  IF ~StartsWith(normalized, WORKSPACE_ROOT)
        THEN [raised |-> TRUE, value |-> <<>>]
        ELSE IF \E i \in 1..Len(comps) : comps[i] = DotDot
        THEN [raised |-> TRUE, value |-> <<>>]
        ELSE [raised |-> FALSE, value |-> normalized]

(* the input paths: up to MaxPieces of these pieces, one after the other *)
Pieces == {Sep, Dot, DotDot, Tail(WORKSPACE_ROOT), <<"x">>}

RECURSIVE PathsOf(_)
PathsOf(n) ==
    IF n = 0 THEN {<<>>}
    ELSE LET shorter == PathsOf(n - 1)
         IN  shorter \cup {q \o piece : q \in shorter, piece \in Pieces}

PathInputs == PathsOf(MaxPieces)

InitPath ==
    /\ InitServices
    /\ path_input \in PathInputs
    /\ path_result = None
    /\ InitNoBatch

ValidatePath ==
    /\ path_result = None
    /\ path_result' = Some(validate_path(path_input))
    /\ UNCHANGED <<execVars, createVars, managerVars, path_input, batchVars, fileVars>>

NextPath == ValidatePath

SpecPath == InitPath /\ [][NextPath]_vars

(* C5: a path that passes validation is exactly /workspace or begins with  *)
(* /workspace/.                                                            *)
C5_ValidatedInsideWorkspace ==
    (path_result # None /\ ~Val(path_result).raised)
        => \/ Val(path_result).value = WORKSPACE_ROOT
           \/ StartsWith(Val(path_result).value, WORKSPACE_ROOT \o Sep)

(* C35: validating a path that validation returned succeeds and returns   *)
(* the same string.                                                        *)
C35_ValidateIdempotent ==
    (path_result # None /\ ~Val(path_result).raised)
        => validate_path(Val(path_result).value)
               = [raised |-> FALSE, value |-> Val(path_result).value]

(* a relative path with a dot-dot in it was accepted, as another string    *)
C35_Witness ==
    /\ path_result # None /\ ~Val(path_result).raised
    /\ ~StartsWith(path_input, Sep)
    /\ \E i \in 1..Len(Split(path_input)) : Split(path_input)[i] = DotDot
    /\ Val(path_result).value # path_input

----------------------------------------------------------------------------
(* FilesystemManager.batch and its rollback.  The paths are normalized     *)
(* already; every docker call of read, write and delete is a blocking one, *)
(* so an operation of the batch is one step.                               *)

MaxBatchOps == 2     \* operations in a batch

Root == "/workspace"
BatchPaths == {"/workspace/a", "/workspace/b"}
Contents == {1, 2}

File(content, mtime) == [content |-> content, mtime |-> mtime]

(* _calculate_etag: a hash of the content and the mtime, in seconds *)
calculate_etag(content, mtime) == <<content, mtime>>

(* write without the etag check *)
fs_write_mut(files, path, content, if_match_etag, t) ==
    [raised |-> "none", files |-> Put(files, path, File(content, t))]

(* read with an etag of the content alone *)
fs_read_mut(files, path) ==
    IF path = Root \/ ~Has(files, path)
    THEN [raised |-> "FileNotFoundError", content |-> None, etag |-> None]
    ELSE [raised |-> "none", content |-> Some(files[path].content),
          etag |-> Some(calculate_etag(files[path].content, 0))]

(* read: the content and the etag, or FileNotFoundError (stat or cat fails) *)
fs_read(files, path) ==
    IF path = Root \/ ~Has(files, path)
    THEN [raised |-> "FileNotFoundError", content |-> None, etag |-> None]
    ELSE [raised |-> "none", content |-> Some(files[path].content),
          etag |-> Some(calculate_etag(files[path].content, files[path].mtime))]

(* write: FileConflictError when the etag asked for is not the file's *)
fs_write(files, path, content, if_match_etag, t) ==
    LET existing == fs_read(files, path)
    IN  IF if_match_etag # None /\ existing.raised = "none"
           /\ existing.etag # if_match_etag
        THEN [raised |-> "FileConflictError", files |-> files]
        ELSE [raised |-> "none", files |-> Put(files, path, File(content, t))]

(* delete: rm -rf succeeds on a missing file; the root is refused *)
fs_delete(files, path) ==
    IF path = Root THEN [raised |-> "PathSecurityError", files |-> files]
    ELSE [raised |-> "none", files |-> IF Has(files, path) THEN Del(files, path) ELSE files]

Op(op_type, path, dest_path, content, if_match_etag) ==
    [op_type |-> op_type, path |-> path, dest_path |-> dest_path,
     content |-> content, if_match_etag |-> if_match_etag]

(* the journal entry of a WRITE or a DELETE: the content read, or None *)
Original(files, path) == <<path, fs_read(files, path).content>>

(* one operation of the execute loop: what it raised, the files and the    *)
(* journal after it                                                        *)
ExecuteOp(files, journal, op, t) ==
    LET source == fs_read(files, op.path)
    IN  CASE op.op_type = "read" ->
                [raised |-> source.raised, files |-> files, journal |-> journal]
          [] op.op_type = "write" ->
                LET w == fs_write(files, op.path, op.content, op.if_match_etag, t)
                IN  [raised |-> w.raised, files |-> w.files,
                     journal |-> Append(journal, Original(files, op.path))]
          [] op.op_type = "delete" ->
                LET d == fs_delete(files, op.path)
                IN  [raised |-> d.raised, files |-> d.files,
                     journal |-> Append(journal, Original(files, op.path))]
          [] op.op_type = "move" ->
                IF source.raised # "none"
                THEN [raised |-> source.raised, files |-> files, journal |-> journal]
                ELSE LET w == fs_write(files, op.dest_path, Val(source.content), None, t)
                         d == fs_delete(w.files, op.path)
                     IN  [raised |-> d.raised, files |-> d.files,
                          journal |-> journal \o <<<<op.path, source.content>>,
                                                   <<op.dest_path, None>>>>]
          [] op.op_type = "copy" ->
                IF source.raised # "none"
                THEN [raised |-> source.raised, files |-> files, journal |-> journal]
                ELSE LET w == fs_write(files, op.dest_path, Val(source.content), None, t)
                     IN  [raised |-> w.raised, files |-> w.files,
                          journal |-> Append(journal, <<op.dest_path, None>>)]

(* _rollback_operations: the journal from its end; a step that raises is   *)
(* logged and skipped                                                      *)
RECURSIVE rollback_operations(_, _, _, _)
rollback_operations(files, journal, failed, t) ==
    IF journal = <<>> THEN [files |-> files, failed |-> failed]
    ELSE LET entry == journal[Len(journal)]
             rest == SubSeq(journal, 1, Len(journal) - 1)
             step == IF entry[2] = None THEN fs_delete(files, entry[1])
                     ELSE fs_write(files, entry[1], Val(entry[2]), None, t)
         IN  rollback_operations(step.files, rest, failed \/ step.raised # "none", t)

(* the etag check that lets every batch go on *)
EtagsMatch_mut(files, ops) == TRUE

(* the etag check before anything is executed: TRUE when the batch goes on *)
EtagsMatch(files, ops) ==
    \A i \in 1..Len(ops) :
        (ops[i].if_match_etag # None /\ ops[i].op_type \in {"write", "delete"})
            => LET existing == fs_read(files, ops[i].path)
               IN  IF existing.raised = "none"
                   THEN existing.etag = ops[i].if_match_etag
                   ELSE ops[i].op_type = "write"

(* the characters of the paths the batches name *)
BadPath == "/etc/x"
PathChars(p) ==
    CASE p = Root -> WORKSPACE_ROOT
      [] p = BadPath -> <<"/", "e", "t", "c", "/", "x">>
      [] p = "/workspace/x" -> WORKSPACE_ROOT \o Sep \o <<"x">>
      [] OTHER -> WORKSPACE_ROOT \o Sep \o <<IF p = "/workspace/a" THEN "a" ELSE "b">>

(* the validation loop before anything else: TRUE when no path is refused *)
PathsValid(ops) ==
    \A i \in 1..Len(ops) :
        /\ ~validate_path(PathChars(ops[i].path)).raised
        /\ ops[i].dest_path # "" => ~validate_path(PathChars(ops[i].dest_path)).raised

TouchedPaths(ops) ==
    {ops[i].path : i \in 1..Len(ops)}
        \cup {ops[i].dest_path : i \in {j \in 1..Len(ops) : ops[j].dest_path # ""}}

(* batch(): validation and the etag check *)
BatchBegin ==
    /\ batch_phase = "idle"
    /\ batch_ops # <<>>
    /\ batch_phase' = IF ~PathsValid(batch_ops) THEN "invalid"
                      ELSE IF EtagsMatch(fs, batch_ops) THEN "running"
                      ELSE "refused"
    /\ UNCHANGED <<execVars, createVars, managerVars, pathVars, fileVars, fs, fs_before,
                   batch_ops, batch_idx,
                   rollback_info, rollback_failed>>

(* batch(): the next operation; when it raises, the rollback *)
BatchStep ==
    /\ batch_phase = "running"
    /\ LET done == ExecuteOp(fs, rollback_info, batch_ops[batch_idx], now)
           undone == rollback_operations(done.files, done.journal, FALSE, now)
       IN  IF done.raised # "none"
           THEN /\ fs' = undone.files
                /\ rollback_failed' = undone.failed
                /\ rollback_info' = done.journal
                /\ batch_phase' = "rolled_back"
                /\ UNCHANGED batch_idx
           ELSE /\ fs' = done.files
                /\ rollback_info' = done.journal
                /\ batch_idx' = batch_idx + 1
                /\ batch_phase' = IF batch_idx = Len(batch_ops) THEN "succeeded"
                                  ELSE "running"
                /\ UNCHANGED rollback_failed
    /\ UNCHANGED <<execVars, createVars, managerVars, pathVars, fileVars, fs_before,
                   batch_ops>>

(* the batches and the workspaces they meet *)
EtagChoices == {None, Some(calculate_etag(1, 0))}

BatchOperations ==
    {Op("read", p, "", 0, None) : p \in BatchPaths}
        \cup {Op("write", p, "", c, e) : p \in BatchPaths, c \in Contents, e \in EtagChoices}
        \cup {Op("delete", p, "", 0, e) : p \in BatchPaths, e \in EtagChoices}
        \cup {Op("delete", Root, "", 0, None)}
        \cup {Op("move", pq[1], pq[2], 0, None) :
                 pq \in {x \in BatchPaths \X BatchPaths : x[1] # x[2]}}
        \cup {Op("copy", pq[1], pq[2], 0, None) :
                 pq \in {x \in BatchPaths \X BatchPaths : x[1] # x[2]}}

Batches == UNION {[1..n -> BatchOperations] : n \in 1..MaxBatchOps}

InitialFiles ==
    UNION {[present -> {File(c, 0) : c \in Contents}] : present \in SUBSET BatchPaths}

InitBatch ==
    /\ InitServices
    /\ path_input = <<>>
    /\ path_result = None
    /\ fs \in InitialFiles
    /\ fs_before = fs
    /\ batch_ops \in Batches
    /\ batch_idx = 1
    /\ rollback_info = <<>>
    /\ batch_phase = "idle"
    /\ rollback_failed = FALSE
    /\ fs_log = <<>>

NextBatch ==
    \/ BatchBegin
    \/ BatchStep
    \/ AdvanceClock

SpecBatch == InitBatch /\ [][NextBatch]_vars

(* C6: when an operation failed mid-batch and every step of the rollback   *)
(* succeeded, each file the batch touches is as it was before the batch:   *)
(* absent if it did not exist, with its original bytes if it did.          *)
C6_RollbackRestores ==
    (batch_phase = "rolled_back" /\ ~rollback_failed)
        => \A p \in TouchedPaths(batch_ops) :
              IF Has(fs_before, p)
              THEN Has(fs, p) /\ fs[p].content = fs_before[p].content
              ELSE ~Has(fs, p)

----------------------------------------------------------------------------
(* The container lifecycle: attach, kill, and the ContainerManager's       *)
(* start_container, stop_container and remove_container.  Each             *)
(* `async with get_session()` block is one transaction.                    *)

MaxKills == 2        \* kill calls in one run
MaxAttachments == 2  \* attach calls that find their container in one run

DockerOutcomes == {"ok", "APIError"}

(* DatabaseManager.get_session: commit when the block ends, rollback when  *)
(* an exception leaves it                                                  *)
get_session(before, after, raised) == IF raised THEN before ELSE after

(* ContainerRepository.update_status *)
update_status(rows, container_id, status) ==
    IF Has(rows, container_id)
    THEN [rows EXCEPT ![container_id].status = status, ![container_id].last_seen = now]
    ELSE rows

(* ContainerRepository.get_by_identifier: by id, then by alias *)
get_by_identifier(rows, identifier) ==
    IF Has(rows, identifier) THEN Some(identifier) ELSE get_by_alias(rows, identifier)

(* AttachmentRepository.detach_all_for_container *)
detach_all_for_container(rows, container_id, t) ==
    [a \in DOMAIN rows |->
        IF rows[a].container_id = container_id /\ rows[a].detached_at = None
        THEN [rows[a] EXCEPT !.detached_at = Some(t)]
        ELSE rows[a]]

(* start_container: what the block leaves in the session and whether it   *)
(* raises                                                                  *)
start_container(rows, engine, container_id, outcome) ==
    IF ~Has(rows, container_id)
    THEN [rows |-> rows, raised |-> TRUE]
    ELSE IF rows[container_id].docker_id \notin engine \/ outcome = "APIError"
    THEN [rows |-> update_status(rows, container_id, "error"), raised |-> TRUE]
    ELSE [rows |-> update_status(rows, container_id, "running"), raised |-> FALSE]

(* stop_container: a container missing from the engine is marked stopped   *)
stop_container(rows, engine, container_id, outcome) ==
    IF ~Has(rows, container_id)
    THEN [rows |-> rows, raised |-> TRUE]
    ELSE IF rows[container_id].docker_id \in engine /\ outcome = "APIError"
    THEN [rows |-> rows, raised |-> TRUE]
    ELSE [rows |-> update_status(rows, container_id, "stopped"), raised |-> FALSE]

(* remove_container that leaves the row in the table *)
remove_container_mut(rows, engine, container_id, outcome) ==
    IF ~Has(rows, container_id)
    THEN [rows |-> rows, engine |-> engine, raised |-> TRUE]
    ELSE [rows |-> update_status(rows, container_id, "stopped"),
          engine |-> engine \ {rows[container_id].docker_id},
          raised |-> FALSE]

(* remove_container: the engine's container goes, then the row; a          *)
(* container missing from the engine only loses its row                    *)
remove_container(rows, engine, container_id, outcome) ==
    IF ~Has(rows, container_id)
    THEN [rows |-> rows, engine |-> engine, raised |-> TRUE]
    ELSE IF rows[container_id].docker_id \in engine /\ outcome = "APIError"
    THEN [rows |-> rows, engine |-> engine, raised |-> TRUE]
    ELSE [rows |-> Del(rows, container_id),
          engine |-> engine \ {rows[container_id].docker_id},
          raised |-> FALSE]

(* remove_container, the volumes of the engine: once the engine's          *)
(* container is gone, the volume of a persistent row is removed too        *)
(* (NotFound: it was gone already; APIError: a warning, the volume stays)  *)
remove_volume(rows, engine, vols, container_id, outcome, volume_outcome) ==
    IF ~Has(rows, container_id)
    THEN vols
    ELSE IF rows[container_id].docker_id \notin engine \/ outcome = "APIError"
    THEN vols
    ELSE IF /\ rows[container_id].persistent
            /\ rows[container_id].volume_name # None
            /\ volume_outcome = "ok"
    THEN vols \ {Val(rows[container_id].volume_name)}
    ELSE vols

(* server.attach *)
Attach(target) ==
    LET n == Cardinality(DOMAIN attachments) + 1
        found == get_by_identifier(containers, target)
    IN  /\ n <= MaxAttachments
        /\ found # None
        /\ attachments' = Put(attachments, n,
               [container_id |-> Val(found), detached_at |-> None])
        /\ UNCHANGED <<execVars, createVars, fsVars, kills, start_failed, warmVars,
                       reconVars, opsVars>>

(* ContainerManager.start_container *)
StartContainer(container_id, outcome) ==
    LET r == start_container(containers, runtime, container_id, outcome)
    IN  /\ Has(containers, container_id)
        /\ containers' = get_session(containers, r.rows, r.raised)
        /\ start_failed' = IF r.raised THEN start_failed \cup {container_id}
                           ELSE start_failed \ {container_id}
        /\ UNCHANGED <<now, execRest, createVars, fsVars, attachments, kills,
                       warmVars, reconVars, opsVars>>

(* server.kill up to the end of stop_container *)
KillStop(container_id, outcome) ==
    LET n == Cardinality(DOMAIN kills) + 1
        r == stop_container(containers, runtime, container_id, outcome)
    IN  /\ n <= MaxKills
        /\ containers' = get_session(containers, r.rows, r.raised)
        /\ kills' = Put(kills, n, [container_id |-> container_id,
                                   pc |-> IF r.raised THEN "raised" ELSE "remove"])
        /\ start_failed' = IF r.raised THEN start_failed
                           ELSE start_failed \ {container_id}
        /\ UNCHANGED <<now, execRest, createVars, fsVars, attachments, warmVars,
                       reconVars, opsVars>>

(* server.kill: remove_container *)
KillRemove(n, outcome) ==
    /\ Has(kills, n) /\ kills[n].pc = "remove"
    /\ LET r == remove_container(containers, runtime, kills[n].container_id, outcome)
       IN  /\ containers' = get_session(containers, r.rows, r.raised)
           /\ runtime' = r.engine
           /\ kills' = [kills EXCEPT ![n].pc = IF r.raised THEN "raised" ELSE "detach"]
    /\ \E volume_outcome \in Outcomes :
           volumes' = remove_volume(containers, runtime, volumes, kills[n].container_id,
                                    outcome, volume_outcome)
    /\ UNCHANGED <<now, execRest, creates, fsVars, attachments, start_failed,
                   warmVars, reconVars, maintenance, shutdown>>

(* server.kill: the session that detaches the attachments *)
KillDetach(n) ==
    /\ Has(kills, n) /\ kills[n].pc = "detach"
    /\ attachments' = detach_all_for_container(attachments, kills[n].container_id, now)
    /\ kills' = [kills EXCEPT ![n].pc = "returned"]
    /\ UNCHANGED <<execVars, createVars, fsVars, start_failed, warmVars, reconVars, opsVars>>

(* the engine loses a container behind the service's back *)
RuntimeVanish(docker_id) ==
    /\ docker_id \in runtime
    /\ runtime' = runtime \ {docker_id}
    /\ UNCHANGED <<execVars, creates, fsVars, managerVars>>

NextLifecycle ==
    \/ \E t \in ContainerIds : Attach(t)
    \/ \E c \in ContainerIds, o \in DockerOutcomes : StartContainer(c, o)
    \/ \E c \in ContainerIds, o \in DockerOutcomes : KillStop(c, o)
    \/ \E n \in 1..MaxKills, o \in DockerOutcomes : KillRemove(n, o)
    \/ \E n \in 1..MaxKills : KillDetach(n)
    \/ \E d \in runtime : RuntimeVanish(d)
    \/ AdvanceClock

SpecLifecycle == Init /\ [][NextLifecycle]_vars

(* C14: no state has an active attachment (detached_at unset) of a         *)
(* container whose row Remove has deleted.                                 *)
C14_NoActiveAttachmentOfDeleted ==
    \A a \in DOMAIN attachments :
        attachments[a].detached_at = None => Has(containers, attachments[a].container_id)

(* C15: a container whose latest Start raised, because the engine has no   *)
(* such container or reported an error, has status "error" in its row.     *)
C15_FailedStartMarksError ==
    \A c \in start_failed : Has(containers, c) => containers[c].status = "error"

----------------------------------------------------------------------------
(* The warm pool.  asyncio.Lock is not reentrant: a coroutine that awaits  *)
(* the lock while holding it waits for itself.  A coroutine waiting for    *)
(* the lock is at pc "lock"; the steps below run from one suspension point *)
(* to the next.  _clean_workspace swallows every error of the exec it      *)
(* submits and leaves the slot alone, so it is part of the creation step.  *)

MaxClaims == 2       \* claim_warm_container calls in one run

WarmTaskIds == 1..(2 * MaxClaims + 1)

WarmTask(kind, pc, alias) ==
    [kind |-> kind, pc |-> pc, alias |-> alias, container |-> None,
     conflict |-> FALSE, result |-> None]

(* asyncio.create_task(self._ensure_warm_container()) *)
SpawnEnsure(ts) == Put(ts, Cardinality(DOMAIN ts) + 1, WarmTask("ensure", "lock", ""))

(* claim_warm_container, lines 86-87: a slot that hands its container out  *)
(* and keeps it                                                            *)
claim_warm_container_mut(slot) == [container |-> slot, slot |-> slot]

(* claim_warm_container, lines 86-87: take the container out of the slot   *)
claim_warm_container(slot) == [container |-> slot, slot |-> None]

(* a caller enters claim_warm_container *)
ClaimCall(alias) ==
    /\ Cardinality({t \in DOMAIN wtasks : wtasks[t].kind = "claim"}) < MaxClaims
    /\ wtasks' = Put(wtasks, Cardinality(DOMAIN wtasks) + 1, WarmTask("claim", "lock", alias))
    /\ UNCHANGED <<execVars, createVars, fsVars, lifeVars, warm_container, lock, reconVars, opsVars>>

(* claim_warm_container from the lock to the alias session or the return *)
ClaimAcquire(t) ==
    /\ Has(wtasks, t) /\ wtasks[t].kind = "claim" /\ wtasks[t].pc = "lock"
    /\ lock = None
    /\ LET r == claim_warm_container(warm_container)
       IN  IF warm_container = None
           THEN /\ wtasks' = [wtasks EXCEPT ![t].pc = "returned"]
                /\ UNCHANGED <<warm_container, lock>>
           ELSE /\ warm_container' = r.slot
                /\ IF wtasks[t].alias # ""
                   THEN /\ lock' = Some(t)
                        /\ wtasks' = [wtasks EXCEPT ![t].pc = "alias",
                                                    ![t].container = r.container]
                   ELSE /\ lock' = None
                        /\ wtasks' = SpawnEnsure([wtasks EXCEPT
                                         ![t].pc = "returned",
                                         ![t].container = r.container,
                                         ![t].result = r.container])
    /\ UNCHANGED <<execVars, createVars, fsVars, lifeVars, reconVars, opsVars>>

(* claim_warm_container: the session that sets the alias.  The UPDATE      *)
(* runs against the unique index on alias; IntegrityError leaves the       *)
(* session block, the lock block and the call.                             *)
ClaimAlias(t) ==
    /\ Has(wtasks, t) /\ wtasks[t].pc = "alias"
    /\ LET c == Val(wtasks[t].container)
           alias == wtasks[t].alias
           taken == \E o \in DOMAIN containers \ {c} : containers[o].alias = alias
       IN  IF ~Has(containers, c)
           THEN /\ wtasks' = SpawnEnsure([wtasks EXCEPT ![t].pc = "returned"])
                /\ UNCHANGED containers
           ELSE IF taken
           THEN /\ wtasks' = [wtasks EXCEPT ![t].pc = "raised", ![t].conflict = TRUE]
                /\ UNCHANGED containers
           ELSE /\ containers' = [containers EXCEPT ![c].alias = alias]
                /\ wtasks' = SpawnEnsure([wtasks EXCEPT ![t].pc = "returned",
                                                        ![t].result = Some(c)])
    /\ lock' = None
    /\ UNCHANGED <<now, execRest, createVars, fsVars, lifeVars, warm_container, reconVars, opsVars>>

(* _ensure_warm_container, entered as a task or from the health-check     *)
(* loop: the lock, then the test of the slot                               *)
EnsureAcquire(t) ==
    /\ Has(wtasks, t) /\ wtasks[t].kind \in {"ensure", "health"} /\ wtasks[t].pc = "lock"
    /\ lock = None
    /\ IF warm_container # None
       THEN /\ wtasks' = [wtasks EXCEPT ![t].pc =
                              IF wtasks[t].kind = "health" THEN "sleep" ELSE "done"]
            /\ UNCHANGED lock
       ELSE /\ wtasks' = [wtasks EXCEPT ![t].pc = "create"]
            /\ lock' = Some(t)
    /\ UNCHANGED <<execVars, createVars, fsVars, lifeVars, warm_container, reconVars, opsVars>>

(* _ensure_warm_container: create_container, start_container and          *)
(* _clean_workspace; any exception leaves the slot empty                   *)
EnsureCreate(t, outcome) ==
    /\ Has(wtasks, t) /\ wtasks[t].pc = "create"
    /\ LET id == NewContainerId(t)
           row == ContainerRow(NewDockerId(t), "", "", None)
           started == start_container(Put(containers, id, row),
                                      runtime \cup {NewDockerId(t)}, id, outcome)
       IN  IF outcome = "create_error"
           THEN /\ warm_container' = None
                /\ UNCHANGED <<containers, runtime>>
           ELSE /\ runtime' = runtime \cup {NewDockerId(t)}
                /\ containers' = get_session(Put(containers, id, row), started.rows,
                                             started.raised)
                /\ warm_container' = IF started.raised THEN None ELSE Some(id)
    /\ wtasks' = [wtasks EXCEPT ![t].pc =
                      IF warm_container' = None THEN "failed"
                      ELSE IF wtasks[t].kind = "health" THEN "sleep" ELSE "done"]
    /\ lock' = None
    /\ UNCHANGED <<now, execRest, creates, fsVars, lifeVars, reconVars, opsVars>>

(* _health_check_loop after its sleep: the lock, the test of the slot and  *)
(* _check_container_health.  With the slot empty it calls                  *)
(* _ensure_warm_container while holding the lock.                          *)
HealthRound(t, responds) ==
    /\ Has(wtasks, t) /\ wtasks[t].kind = "health" /\ wtasks[t].pc = "sleep"
    /\ lock = None
    /\ IF warm_container = None
       THEN /\ lock' = Some(t)
            /\ wtasks' = [wtasks EXCEPT ![t].pc = "lock"]
       ELSE IF /\ Has(containers, Val(warm_container))
               /\ containers[Val(warm_container)].docker_id \in runtime
               /\ responds
       THEN UNCHANGED <<lock, wtasks>>
       ELSE /\ lock' = Some(t)
            /\ wtasks' = [wtasks EXCEPT ![t].pc = "remove"]
    /\ UNCHANGED <<execVars, createVars, fsVars, lifeVars, warm_container, reconVars, opsVars>>

(* _health_check_loop: remove the unhealthy container, empty the slot and  *)
(* call _ensure_warm_container, still holding the lock                     *)
HealthRemove(t, outcome) ==
    /\ Has(wtasks, t) /\ wtasks[t].pc = "remove"
    /\ LET r == remove_container(containers, runtime, Val(warm_container), outcome)
       IN  /\ containers' = get_session(containers, r.rows, r.raised)
           /\ runtime' = r.engine
    /\ \E volume_outcome \in Outcomes :
           volumes' = remove_volume(containers, runtime, volumes, Val(warm_container),
                                    outcome, volume_outcome)
    /\ warm_container' = None
    /\ wtasks' = [wtasks EXCEPT ![t].pc = "lock"]
    /\ UNCHANGED <<now, execRest, creates, fsVars, lifeVars, lock, reconVars,
                   maintenance, shutdown>>

(* the steps of one coroutine of the pool *)
WarmStep(t) ==
    \/ ClaimAcquire(t)
    \/ ClaimAlias(t)
    \/ EnsureAcquire(t)
    \/ \E o \in {"ok", "create_error", "APIError"} : EnsureCreate(t, o)
    \/ \E responds \in BOOLEAN : HealthRound(t, responds)
    \/ \E o \in DockerOutcomes : HealthRemove(t, o)

(* start() has run: the slot holds c_1 and the health-check task sleeps;   *)
(* another container, c_a, holds the alias "a"                             *)
InitWarm ==
    /\ containers = [c \in {"c_1", "c_a"} |->
                        [ContainerRow(IF c = "c_1" THEN "d_1" ELSE "d_a",
                                      IF c = "c_1" THEN "" ELSE "a", "", None)
                            EXCEPT !.status = "running"]]
    /\ runtime = {"d_1", "d_a"}
    /\ InitExec
    /\ warm_container = Some("c_1")
    /\ lock = None
    /\ wtasks = [t \in {1} |-> WarmTask("health", "sleep", "")]
    /\ InitReconIdle
    /\ path_input = <<>>
    /\ path_result = None
    /\ InitNoBatch

NextWarm ==
    \/ \E alias \in {"", "a", "b"} : ClaimCall(alias)
    \/ \E t \in WarmTaskIds : WarmStep(t)
    \/ \E d \in runtime : RuntimeVanish(d)

SpecWarm == InitWarm /\ [][NextWarm]_vars

(* the event loop runs every coroutine that can take a step *)
SpecWarmFair == SpecWarm /\ \A t \in WarmTaskIds : WF_vars(WarmStep(t))

(* C16: no two Claim calls are handed the same warm container.             *)
C16_ClaimedAtMostOnce ==
    \A t1, t2 \in DOMAIN wtasks :
        (/\ t1 # t2
         /\ wtasks[t1].kind = "claim" /\ wtasks[t2].kind = "claim"
         /\ wtasks[t1].container # None)
            => wtasks[t1].container # wtasks[t2].container

(* C16 happens: two Claim calls have run; one got a container, the other   *)
(* got none or another one.                                                *)
C16_Witness ==
    \E t1, t2 \in DOMAIN wtasks :
        /\ t1 # t2
        /\ wtasks[t1].kind = "claim" /\ wtasks[t1].pc = "returned"
        /\ wtasks[t1].result # None
        /\ wtasks[t2].kind = "claim" /\ wtasks[t2].pc = "returned"

(* C17: once a health-check round has found the slot empty or its          *)
(* container unhealthy, the slot eventually holds a container again,       *)
(* unless a creation failed.                                               *)
C17_HealthCheckRefills ==
    (\E t \in DOMAIN wtasks :
        wtasks[t].kind = "health" /\ wtasks[t].pc \in {"remove", "lock"})
    ~> (\/ warm_container # None
        \/ \E t \in DOMAIN wtasks : wtasks[t].pc = "failed")

(* C18: a Claim whose alias another container holds returns the warm       *)
(* container it took, and that container has no alias.                     *)
C18_AliasConflictStillClaims ==
    \A t \in DOMAIN wtasks :
        wtasks[t].conflict =>
            /\ wtasks[t].pc = "returned"
            /\ wtasks[t].result = wtasks[t].container
            /\ containers[Val(wtasks[t].container)].alias = ""

----------------------------------------------------------------------------
(* ReconciliationManager.reconcile.  The whole run uses one session:       *)
(* recon.session is what that transaction sees, `containers` what is       *)
(* committed.  A flush that fails rolls the transaction back and leaves    *)
(* the session unusable until rollback() is called (recon.broken).         *)

UnmanagedIds == {"d_x", "d_y"}   \* service containers of the engine without a row

(* ContainerRepository.list_all: every row of the table *)
list_all(rows) == DOMAIN rows

(* cleanup_orphaned_transients: list_by_status has no parameter            *)
(* `persistent`, the call at line 34 raises TypeError                      *)
cleanup_orphaned_transients(rows) == [rows |-> rows, raised |-> TRUE]

(* the mounts a labelled container can have: the volume create_container   *)
(* gives a persistent or a transient container, or a persist volume that   *)
(* something else mounted away from /workspace                             *)
MountLayouts(container_id) ==
    { {[Name |-> VolumeName("mcpdevbench_persist_", container_id),
        Destination |-> "/workspace"]},
      {[Name |-> VolumeName("mcpdevbench_transient_", container_id),
        Destination |-> "/workspace"]},
      {[Name |-> VolumeName("mcpdevbench_persist_", container_id),
        Destination |-> "/data"]} }

(* _adopt_container: persistent, from the names of the mounts *)
adopt_persistent(mounts) ==
    \E mnt \in mounts : mnt.Name.prefix = "mcpdevbench_persist_"

(* _adopt_container: volume_name, the volume mounted at /workspace *)
adopt_volume_name(mounts) ==
    LET at == {mnt \in mounts : mnt.Destination = "/workspace"}
    IN  IF at = {} THEN None ELSE Some((CHOOSE mnt \in at : TRUE).Name)

(* reconcile: discovery, the session, the rows and the two comparisons *)
ReconcileBegin ==
    /\ recon.pc = "idle"
    /\ LET docker_ids == runtime \cap DOMAIN labels
           db_containers == list_all(containers)
           db_docker_ids == {containers[c].docker_id : c \in db_containers}
       IN  recon' = [pc |-> "running",
                     adopt |-> docker_ids \ db_docker_ids,
                     missing |-> {c \in db_containers :
                                     containers[c].docker_id \notin docker_ids},
                     session |-> containers, broken |-> FALSE,
                     adopted |-> {}, marked |-> {}, failed |-> {},
                     stats |-> [discovered |-> Cardinality(docker_ids), adopted |-> 0,
                                cleaned_up |-> 0, errors |-> 0]]
    /\ UNCHANGED <<execVars, createVars, fsVars, lifeVars, warmVars, labels,
                   opsVars>>

(* reconcile: one round of the adoption loop, _adopt_container *)
ReconcileAdopt(d) ==
    /\ recon.pc = "running" /\ d \in recon.adopt
    /\ LET id == labels[d].container_id
           row == [ContainerRow(d, labels[d].alias, "", None)
                      EXCEPT !.status = "running",
                             !.persistent = adopt_persistent(labels[d].mounts),
                             !.volume_name = adopt_volume_name(labels[d].mounts),
                             !.last_seen = now]
           rest == [recon EXCEPT !.adopt = @ \ {d}]
       IN  recon' =
             IF id = ""
             THEN [rest EXCEPT !.stats.adopted = @ + 1]
             ELSE IF recon.broken \/ UniqueViolation(recon.session, id, row)
             THEN [rest EXCEPT !.stats.errors = @ + 1, !.failed = @ \cup {d},
                               !.broken = TRUE, !.session = containers]
             ELSE [rest EXCEPT !.stats.adopted = @ + 1, !.adopted = @ \cup {id},
                               !.session = Put(@, id, row)]
    /\ UNCHANGED <<execVars, createVars, fsVars, lifeVars, warmVars, labels,
                   opsVars>>

(* reconcile: one round of the second loop, _cleanup_missing_container *)
ReconcileMark(c) ==
    /\ recon.pc = "running" /\ recon.adopt = {} /\ c \in recon.missing
    /\ LET rest == [recon EXCEPT !.missing = @ \ {c}]
       IN  recon' =
             IF recon.broken
             THEN [rest EXCEPT !.stats.errors = @ + 1]
             ELSE [rest EXCEPT !.stats.cleaned_up = @ + 1, !.marked = @ \cup {c},
                               !.session = update_status(@, c, "stopped")]
    /\ UNCHANGED <<execVars, createVars, fsVars, lifeVars, warmVars, labels,
                   opsVars>>

(* reconcile: _handle_orphaned_transients and the end of the session       *)
(* block; the outer handler counts the error and returns the stats         *)
ReconcileOrphans ==
    /\ recon.pc = "running" /\ recon.adopt = {} /\ recon.missing = {}
    /\ LET r == cleanup_orphaned_transients(recon.session)
       IN  /\ containers' = get_session(containers, r.rows, r.raised \/ recon.broken)
           /\ recon' = [recon EXCEPT !.pc = "returned",
                                     !.stats.errors = IF r.raised THEN @ + 1 ELSE @]
    /\ UNCHANGED <<now, execRest, createVars, fsVars, lifeVars, warmVars, labels,
                   opsVars>>

(* the service boots: c_1 runs, the container of c_gone has left the       *)
(* engine, and the engine holds labelled containers that have no row       *)
InitRecon ==
    /\ containers = [c \in {"c_1", "c_gone"} |->
                        [ContainerRow(IF c = "c_1" THEN "d_1" ELSE "d_gone", "", "", None)
                            EXCEPT !.status = "running"]]
    /\ runtime = {"d_1"} \cup UnmanagedIds
    /\ labels \in {l \in [runtime -> [container_id : {"", "c_x", "c_y", "c_1"},
                                      alias : {"", "z"},
                                      mounts : MountLayouts("c")]] :
                      l["d_1"] = [container_id |-> "c_1", alias |-> "",
                                  mounts |-> {[Name |-> VolumeName("mcpdevbench_transient_", "c"),
                                               Destination |-> "/workspace"]}]}
    /\ recon = [pc |-> "idle"]
    /\ maintenance = None
    /\ shutdown = [pc |-> "idle"]
    /\ volumes = {mnt.Name : mnt \in {x \in UNION {labels[d].mounts : d \in runtime} :
                                          x.Name.prefix = "mcpdevbench_persist_"}}
    /\ InitExec
    /\ InitWarmIdle
    /\ path_input = <<>>
    /\ path_result = None
    /\ InitNoBatch

NextRecon ==
    \/ ReconcileBegin
    \/ \E d \in UnmanagedIds : ReconcileAdopt(d)
    \/ \E c \in DOMAIN containers : ReconcileMark(c)
    \/ ReconcileOrphans

SpecRecon == InitRecon /\ [][NextRecon]_vars

(* C19: after Reconcile has returned, every labelled container of the      *)
(* engine that carries a container_id and had no row has a row with that   *)
(* id and the alias of its labels, and a lookup by that alias finds it.    *)
C19_AdoptedAfterReconcile ==
    recon.pc = "returned" =>
        \A d \in (runtime \cap DOMAIN labels) :
            (labels[d].container_id # "" /\ d \in UnmanagedIds) =>
                /\ Has(containers, labels[d].container_id)
                /\ containers[labels[d].container_id].alias = labels[d].alias
                /\ labels[d].alias # "" =>
                      get_by_identifier(containers, labels[d].alias)
                          = Some(labels[d].container_id)

(* C20: when the adoption of one container failed during a Reconcile run, *)
(* the rows the run adopted for other containers and the rows it marked    *)
(* stopped are in the table after it has returned.                         *)
C20_ItemFailureIsLocal ==
    (recon.pc = "returned" /\ recon.failed # {}) =>
        /\ \A c \in recon.adopted : Has(containers, c)
        /\ \A c \in recon.marked : containers[c].status = "stopped"

----------------------------------------------------------------------------
(* The maintenance manager's GC of old transient containers.  Its first    *)
(* query is the one of cleanup_orphaned_transients.                        *)

GcSeconds == 7 * 24 * SecondsPerHour   \* transient_gc_days

(* MaintenanceManager._cleanup_orphaned_transients: the session block, and *)
(* the handler that turns any exception into the count 0                   *)
CleanupOrphanedTransients ==
    /\ LET r == cleanup_orphaned_transients(containers)
       IN  /\ containers' = get_session(containers, r.rows, r.raised)
           /\ maintenance' = Some([at |-> now,
                                   orphaned |-> IF r.raised THEN 0
                                                ELSE Cardinality(DOMAIN containers
                                                                 \ DOMAIN r.rows)])
    /\ UNCHANGED <<now, execRest, createVars, fsVars, lifeVars, warmVars, reconVars,
                   shutdown, engineVars>>

(* two containers of any kind, status and age; the engine has lost the     *)
(* container of g_2                                                        *)
InitGC ==
    /\ \E a \in [{"g_1", "g_2"} -> [persistent : BOOLEAN,
                                    status : {"running", "stopped", "error"},
                                    last_seen : {0, -(GcSeconds + 1)}]] :
          containers = [c \in {"g_1", "g_2"} |->
              [ContainerRow("d_" \o c, "", "", None) EXCEPT
                  !.persistent = a[c].persistent, !.status = a[c].status,
                  !.volume_name = volume_config(c, a[c].persistent),
                  !.last_seen = a[c].last_seen]]
    /\ runtime = {"d_g_1"}
    /\ InitExec
    /\ InitWarmIdle
    /\ InitReconIdle
    /\ path_input = <<>>
    /\ path_result = None
    /\ InitNoBatch

NextGC ==
    \/ CleanupOrphanedTransients
    \/ AdvanceClock

SpecGC == InitGC /\ [][NextGC]_vars

(* C21: after a GC run no row is left of a non-persistent container whose  *)
(* last_seen was older than transient_gc_days when the run began.          *)
C21_GcDeletesOldTransients ==
    maintenance # None =>
        \A c \in DOMAIN containers :
            ~(/\ ~containers[c].persistent
              /\ containers[c].last_seen < Val(maintenance).at - GcSeconds)

----------------------------------------------------------------------------
(* ShutdownCoordinator.initiate_shutdown.  _drain_operations sleeps 0.1 s  *)
(* under a timeout of drain_grace_s and looks at no exec; 0.1 s is below   *)
(* the resolution of the clock.                                            *)

GraceSeconds == 60   \* drain_grace_s

(* ContainerRepository.list_by_status with `persistent` a parameter that   *)
(* filters                                                                 *)
list_by_status_mut(rows, status, kwargs) ==
    [found |-> {c \in DOMAIN rows :
                   /\ rows[c].status = status
                   /\ "persistent" \in kwargs => ~rows[c].persistent},
     raised |-> FALSE]

(* ContainerRepository.list_by_status(status, include_stopped) called with *)
(* the keyword arguments kwargs and a status: a keyword that is no         *)
(* parameter raises TypeError                                              *)
list_by_status(rows, status, kwargs) ==
    IF kwargs \subseteq {"include_stopped"}
    THEN [found |-> {c \in DOMAIN rows : rows[c].status = status}, raised |-> FALSE]
    ELSE [found |-> {}, raised |-> TRUE]

(* an exec of the container has a worker that has not finished *)
InFlight(container_id) ==
    \E e \in DOMAIN tasks :
        calls[e].container_id = container_id /\ ~TaskDone(tasks[e])

(* initiate_shutdown up to the drain *)
InitiateShutdown ==
    /\ shutdown.pc = "idle"
    /\ shutdown' = [pc |-> "drain", started |-> now, stopping_at |-> now,
                    transients |-> {}, busy |-> {}, stops |-> {}]
    /\ UNCHANGED <<execVars, createVars, fsVars, lifeVars, warmVars, reconVars,
                   maintenance, engineVars>>

(* _drain_operations *)
DrainOperations ==
    /\ shutdown.pc = "drain"
    /\ shutdown' = [shutdown EXCEPT !.pc = "stop"]
    /\ UNCHANGED <<execVars, createVars, fsVars, lifeVars, warmVars, reconVars,
                   maintenance, engineVars>>

(* _stop_transient_containers: the query, then stop_container for each     *)
(* row it returned; those in `failing` raise, which the loop logs          *)
StopTransientContainers(failing) ==
    /\ shutdown.pc = "stop"
    /\ LET q == list_by_status(containers, "running", {"persistent"})
           stopped == {c \in q.found \ failing :
                          ~stop_container(containers, runtime, c, "ok").raised}
       IN  /\ containers' = [c \in DOMAIN containers |->
                                IF c \in stopped
                                THEN update_status(containers, c, "stopped")[c]
                                ELSE containers[c]]
           /\ shutdown' = [shutdown EXCEPT
                  !.pc = "done", !.stopping_at = now,
                  !.transients = {c \in DOMAIN containers :
                                     /\ containers[c].status = "running"
                                     /\ ~containers[c].persistent},
                  !.busy = {c \in DOMAIN containers : InFlight(c)},
                  !.stops = q.found]
    /\ UNCHANGED <<now, execRest, createVars, fsVars, lifeVars, warmVars, reconVars,
                   maintenance, engineVars>>

(* a transient container c_1 with its execs, a persistent container c_p    *)
(* and a stopped transient one                                             *)
InitShutdown ==
    /\ containers = [c \in {"c_1", "c_p", "c_s"} |->
           [ContainerRow("d_" \o c, "", "", None) EXCEPT
               !.status = IF c = "c_s" THEN "stopped" ELSE "running",
               !.persistent = (c = "c_p"),
               !.volume_name = volume_config(c, c = "c_p")]]
    /\ runtime = {"d_c_1", "d_c_p", "d_c_s"}
    /\ InitExec
    /\ InitWarmIdle
    /\ InitReconIdle
    /\ path_input = <<>>
    /\ path_result = None
    /\ InitNoBatch

NextShutdown ==
    \/ \E c \in ContainerIds : ExecStart(c, "", MaxExecs, MaxManagers)
    \/ \E e \in ExecIds : ExecuteVerify(e)
    \/ \E e \in ExecIds : ExecuteSpawn(e)
    \/ \E e \in ExecIds : TaskStart(e)
    \/ \E e \in ExecIds, o \in Outcomes, code \in CommandExitCodes, out \in OutputCases :
          TaskRun(e, o, code, out[1], out[2])
    \/ \E e \in ExecIds, committed \in BOOLEAN : TaskFinish(e, committed)
    \/ InitiateShutdown
    \/ DrainOperations
    \/ \E failing \in SUBSET {"c_1", "c_p"} : StopTransientContainers(failing)
    \/ AdvanceClock

SpecShutdown == InitShutdown /\ [][NextShutdown]_vars

(* C22: when shutdown has completed, a stop was issued for every container *)
(* that was running and non-persistent, and for no persistent one.         *)
C22_ShutdownStopsTransients ==
    shutdown.pc = "done" =>
        /\ shutdown.transients \subseteq shutdown.stops
        /\ \A c \in shutdown.stops : ~containers[c].persistent

----------------------------------------------------------------------------
(* The output streamer by itself: any sequence of calls on a streamer      *)
(* built with small limits, as tests/unit/test_output_streamer.py does.    *)

MaxSeq == 4          \* chunks an exec is given in one run
SmallLimit == 3      \* max_buffer_size and max_chunks of the small streamer

(* OutputStreamer.__init__ with explicit limits *)
NewStreamer(maxBytes, maxChunks) ==
    /\ buffers = EmptyDict /\ sequences = EmptyDict
    /\ max_chunks = DEFAULT_MAX_CHUNKS
    /\ max_buffer_size' = maxBytes
    /\ max_chunks' = maxChunks
    /\ UNCHANGED <<otherVars, now, containers, execs, buffers, sequences, buffered_bytes,
                   completed, idempotency_keys, container_semaphores, active_execs,
                   cancelled, calls, tasks, submitted, numCancels, pollSeen, pollLater>>

(* one call of init_exec, add_output, complete or cleanup *)
StreamerCall(S) ==
    /\ SetStreamer(S)
    /\ UNCHANGED <<otherVars, now, containers, execs, max_buffer_size, max_chunks,
                   idempotency_keys, container_semaphores, active_execs, cancelled,
                   calls, tasks, submitted, numCancels, pollSeen, pollLater>>

StreamInit(e) == StreamerCall(init_exec(Streamer, e))

StreamAppend(e, stream, size) ==
    /\ Has(sequences, e) => sequences[e] < MaxSeq
    /\ StreamerCall(add_output(Streamer, e, stream, "out", size, max_buffer_size,
                               max_chunks).S)

StreamComplete(e, exit_code) ==
    /\ Has(sequences, e) => sequences[e] < MaxSeq
    /\ StreamerCall(complete(Streamer, e, exit_code, {}))

StreamCleanup(e) == StreamerCall(cleanup(Streamer, e))

NextStreamer ==
    \/ NewStreamer(SmallLimit, SmallLimit)
    \/ \E e \in ExecIds : StreamInit(e)
    \/ \E e \in ExecIds, size \in 0..2 : StreamAppend(e, "stdout", size)
    \/ \E e \in ExecIds : StreamComplete(e, 0)
    \/ \E e \in ExecIds : StreamCleanup(e)
    \/ \E e \in ExecIds, a \in AfterSeqs : ExecPoll(e, a)

SpecStreamer == Init /\ [][NextStreamer]_vars

(* C24: a step that is not Cleanup takes no completion chunk out of the    *)
(* buffer of an exec.                                                      *)
CompletionChunkStays ==
    \A e \in DOMAIN buffers \cap DOMAIN buffers' :
        CompletionSeqs(buffers[e]) \subseteq CompletionSeqs(buffers'[e])

C24_CompletionNeverEvicted == [][CompletionChunkStays]_vars

(* C25: every Poll(after_seq = k) returns chunks with seq > k in strictly  *)
(* increasing order of seq.                                                *)
C25_PollIncreasingAfterK ==
    \A e \in DOMAIN buffers : \A k \in {None} \cup {Some(i) : i \in 0..MaxSeq} :
        LET chunks == poll(Streamer, e, k).chunks
        IN  /\ \A i \in DOMAIN chunks : k # None => chunks[i].seq > Val(k)
            /\ \A i, j \in DOMAIN chunks : i < j => chunks[i].seq < chunks[j].seq

(* C25 happens: the buffer is saturated, so that appends are dropped, it   *)
(* has lost its oldest chunk, and a Poll has returned its completion chunk *)
C25_Witness ==
    \E e \in DOMAIN buffers :
        /\ Has(buffered_bytes, e) /\ buffered_bytes[e] = max_buffer_size
        /\ Len(buffers[e]) >= 2
        /\ buffers[e][1].seq > 0
        /\ Has(pollSeen, e)

----------------------------------------------------------------------------
(* Alias uniqueness in create_container.                                   *)

(* C26: at no time do two container rows carry the same alias, and a       *)
(* Create whose alias is already held by a row fails with                  *)
(* ContainerAlreadyExistsError (AliasInUse), also when two Creates with    *)
(* the same alias run concurrently.  Creates without idempotency key are   *)
(* looked at, so that the key index plays no part; a Create refused by the *)
(* image policy or by the engine is left aside.                            *)
C26_AliasUniqueOrAliasInUse ==
    /\ \A c \in DOMAIN containers : \A d \in DOMAIN containers :
           (c # d /\ containers[c].alias # "")
               => containers[c].alias # containers[d].alias
    /\ \A n \in DOMAIN creates :
           ( /\ creates[n].pc = "raised"
             /\ creates[n].idempotency_key = ""
             /\ creates[n].alias # ""
             /\ \E c \in DOMAIN containers : containers[c].alias = creates[n].alias
             /\ creates[n].error \notin {"ImagePolicyError", "DockerAPIError"} )
               => creates[n].error = "ContainerAlreadyExistsError"

----------------------------------------------------------------------------
(* Persistent containers and their volumes: creation, adoption and the     *)
(* lifecycle operations working on one table.                              *)

MaxPersistCreates == 1   \* create_container calls next to a reconcile run

(* the service boots as for reconcile; the labelled containers without a   *)
(* row carry ids of their own and any of the mount layouts                 *)
InitPersist ==
    /\ InitRecon
    /\ labels["d_x"].container_id = "c_x" /\ labels["d_x"].alias = ""
    /\ labels["d_y"] = [labels["d_1"] EXCEPT !.container_id = "c_y"]

NextPersist ==
    \/ /\ Cardinality(DOMAIN creates) < MaxPersistCreates
       /\ CreateContainer("", "")
    \/ \E n \in 1..MaxPersistCreates : CreateResolve(n, TRUE)
    \/ \E n \in 1..MaxPersistCreates, p \in BOOLEAN : CreateDocker(n, TRUE, p)
    \/ \E n \in 1..MaxPersistCreates : CreateCommit(n)
    \/ ReconcileBegin
    \/ \E d \in UnmanagedIds : ReconcileAdopt(d)
    \/ \E c \in DOMAIN containers : ReconcileMark(c)
    \/ ReconcileOrphans
    \/ \E c \in DOMAIN containers, o \in DockerOutcomes : StartContainer(c, o)
    \/ /\ kills = EmptyDict
       /\ \E c \in DOMAIN containers : KillStop(c, "ok")
    \/ \E n \in DOMAIN kills : KillRemove(n, "ok")
    \/ \E n \in DOMAIN kills : KillDetach(n)

SpecPersist == InitPersist /\ [][NextPersist]_vars

(* C27: in every reachable state, after any sequence of Create, Reconcile  *)
(* adoption and lifecycle operations, every container row with persistent  *)
(* set has a volume_name that is not null.                                 *)
C27_PersistentHasVolume ==
    \A c \in DOMAIN containers :
        containers[c].persistent => containers[c].volume_name # None

(* a persistent container was created and started, and a reconcile run     *)
(* that adopted a container with a persist volume has returned             *)
C27_Witness ==
    /\ \E c \in DOMAIN containers :
           containers[c].persistent /\ containers[c].status = "running"
    /\ recon.pc = "returned"
    /\ \E d \in UnmanagedIds : adopt_persistent(labels[d].mounts)
    /\ recon.adopted # {}

----------------------------------------------------------------------------
(* FilesystemManager.read and write called one after the other.  Neither   *)
(* has a suspension point between its docker calls, so a call is one step. *)

MaxFileCalls == 3    \* read and write calls in one run

(* the etags a client can hold: none, the ones its calls returned, and one *)
(* of a file as it may have been before                                    *)
KnownEtags ==
    EtagChoices \cup {fs_log[i].etag : i \in 1..Len(fs_log)}

(* write(): the conflict, or the file and the etag of what stat reports *)
WriteFile(path, content, if_match_etag) ==
    /\ Len(fs_log) < MaxFileCalls
    /\ LET w == fs_write(fs, path, content, if_match_etag, now)
       IN  /\ fs' = w.files
           /\ fs_log' = Append(fs_log,
                  [op |-> "write", path |-> path, content |-> Some(content),
                   if_match_etag |-> if_match_etag, raised |-> w.raised,
                   etag |-> IF w.raised = "none"
                            THEN Some(calculate_etag(content, w.files[path].mtime))
                            ELSE None,
                   before |-> fs])
    /\ UNCHANGED <<execVars, createVars, managerVars, pathVars, fs_before, batch_ops,
                   batch_idx, rollback_info, batch_phase, rollback_failed>>

(* read(): the content and the etag, or FileNotFoundError *)
ReadFile(path) ==
    /\ Len(fs_log) < MaxFileCalls
    /\ LET r == fs_read(fs, path)
       IN  fs_log' = Append(fs_log,
               [op |-> "read", path |-> path, content |-> r.content,
                if_match_etag |-> None, raised |-> r.raised, etag |-> r.etag,
                before |-> fs])
    /\ UNCHANGED <<execVars, createVars, managerVars, pathVars, batchVars>>

InitFiles ==
    /\ InitServices
    /\ path_input = <<>>
    /\ path_result = None
    /\ fs \in InitialFiles
    /\ fs_before = fs
    /\ batch_ops = <<>>
    /\ batch_idx = 1
    /\ rollback_info = <<>>
    /\ batch_phase = "idle"
    /\ rollback_failed = FALSE
    /\ fs_log = <<>>

NextFiles ==
    \/ \E p \in BatchPaths, c \in Contents, e \in KnownEtags : WriteFile(p, c, e)
    \/ \E p \in BatchPaths : ReadFile(p)
    \/ AdvanceClock

SpecFiles == InitFiles /\ [][NextFiles]_vars

(* the files as call i of the log left them *)
FilesAfter(i) == IF i < Len(fs_log) THEN fs_log[i + 1].before ELSE fs

(* a write of the log that went through *)
Wrote(i, path) ==
    /\ fs_log[i].op = "write" /\ fs_log[i].path = path /\ fs_log[i].raised = "none"

(* C28: a Write with if_match_etag fails with FileConflict and leaves the  *)
(* file's content and etag unchanged whenever the file exists and its      *)
(* current etag differs from if_match_etag; when the file is absent the    *)
(* etag is ignored and the file is created.                                *)
C28_WriteEtagConflict ==
    \A i \in 1..Len(fs_log) :
        LET call == fs_log[i]
            old == call.before
            new == FilesAfter(i)
        IN  (call.op = "write" /\ call.if_match_etag # None) =>
                IF Has(old, call.path)
                THEN Some(<<old[call.path].content, old[call.path].mtime>>)
                         # call.if_match_etag
                       => /\ call.raised = "FileConflictError"
                          /\ Has(new, call.path) /\ new[call.path] = old[call.path]
                ELSE /\ call.raised = "none"
                     /\ Has(new, call.path)
                     /\ Some(new[call.path].content) = call.content

(* a Write was refused whose etag an earlier Write of the run had returned *)
(* and a later Write had superseded, and a Write with an etag created a    *)
(* file that was absent                                                    *)
C28_Witness ==
    /\ \E i \in 1..Len(fs_log) : \E j \in 1..Len(fs_log) :
           /\ j < i /\ Wrote(j, fs_log[i].path)
           /\ fs_log[i].op = "write" /\ fs_log[i].raised = "FileConflictError"
           /\ fs_log[i].if_match_etag = fs_log[j].etag
    /\ \E i \in 1..Len(fs_log) :
           /\ fs_log[i].op = "write" /\ fs_log[i].if_match_etag # None
           /\ ~Has(fs_log[i].before, fs_log[i].path) /\ fs_log[i].raised = "none"

(* C29: Write(p, b) followed by Read(p), with no other write to p in       *)
(* between, returns exactly b together with the etag the Write returned.   *)
C29_ReadAfterWrite ==
    \A i \in 1..Len(fs_log) : \A j \in 1..Len(fs_log) :
        ( /\ i < j
          /\ Wrote(i, fs_log[j].path)
          /\ fs_log[j].op = "read"
          /\ \A k \in (i + 1)..(j - 1) : ~Wrote(k, fs_log[j].path) )
            => /\ fs_log[j].raised = "none"
               /\ fs_log[j].content = fs_log[i].content
               /\ fs_log[j].etag = fs_log[i].etag

(* a file written after the clock has advanced is read back after a write  *)
(* to another path                                                         *)
C29_Witness ==
    /\ Len(fs_log) = 3
    /\ Wrote(1, fs_log[3].path) /\ fs_log[1].before # EmptyDict
    /\ fs_log[2].op = "write" /\ fs_log[2].raised = "none"
    /\ fs_log[2].path # fs_log[3].path
    /\ fs_log[3].op = "read" /\ fs_log[3].raised = "none"
    /\ Val(fs_log[3].etag)[2] > 0

----------------------------------------------------------------------------
(* batch(): the checks made before the first operation is executed.        *)

(* operations with and without an etag, on paths inside and outside the    *)
(* workspace                                                               *)
CheckedOperations ==
    {Op("write", p, "", 2, e) : p \in BatchPaths \cup {BadPath}, e \in EtagChoices}
        \cup {Op("delete", p, "", 0, e) : p \in BatchPaths, e \in EtagChoices}
        \cup {Op("copy", "/workspace/a", q, 0, e) :
                 q \in {"/workspace/b", BadPath}, e \in EtagChoices}
        \cup {Op("move", "/workspace/a", "/workspace/b", 0, e) : e \in EtagChoices}
        \cup {Op("read", "/workspace/a", "", 0, None)}

InitBatchChecks ==
    /\ InitServices
    /\ path_input = <<>>
    /\ path_result = None
    /\ fs \in InitialFiles
    /\ fs_before = fs
    /\ batch_ops \in UNION {[1..n -> CheckedOperations] : n \in 1..MaxBatchOps}
    /\ batch_idx = 1
    /\ rollback_info = <<>>
    /\ batch_phase = "idle"
    /\ rollback_failed = FALSE
    /\ fs_log = <<>>

SpecBatchChecks == InitBatchChecks /\ [][NextBatch]_vars

(* operation i carries an etag that is not the etag of the file it names *)
EtagDiffers(files, ops, i) ==
    /\ ops[i].if_match_etag # None
    /\ Has(files, ops[i].path)
    /\ Some(<<files[ops[i].path].content, files[ops[i].path].mtime>>)
           # ops[i].if_match_etag

(* the batch failed before its first operation and the files are as before *)
FailedUntouched ==
    batch_phase \in {"invalid", "refused"} /\ fs = fs_before

----------------------------------------------------------------------------
(* FilesystemManager.delete, called with a path as the client gives it.    *)

(* /workspace/../etc/passwd *)
EscapePath ==
    WORKSPACE_ROOT \o Sep \o DotDot \o Sep \o <<"e", "t", "c">> \o Sep
        \o <<"p", "a", "s", "s", "w", "d">>

(* the file a normalized path names; a path with no name here is no file   *)
(* of the workspaces below                                                 *)
DeletePaths == {Root, "/workspace/x", "/workspace/a"}
PathName(chars) ==
    IF \E p \in DeletePaths : PathChars(p) = chars
    THEN CHOOSE p \in DeletePaths : PathChars(p) = chars
    ELSE "/workspace/other"

(* delete(): validation, the root check, rm -rf *)
DeletePath ==
    /\ fs_log = <<>>
    /\ LET v == validate_path(path_input)
           d == IF v.raised THEN [raised |-> "PathSecurityError", files |-> fs]
                ELSE fs_delete(fs, PathName(v.value))
       IN  /\ fs' = d.files
           /\ fs_log' = <<[op |-> "delete",
                           path |-> IF v.raised THEN "" ELSE PathName(v.value),
                           content |-> None, if_match_etag |-> None,
                           raised |-> d.raised, etag |-> None, before |-> fs]>>
    /\ UNCHANGED <<execVars, createVars, managerVars, pathVars, fs_before, batch_ops,
                   batch_idx, rollback_info, batch_phase, rollback_failed>>

InitDelete ==
    /\ InitServices
    /\ path_input \in PathInputs \cup {EscapePath}
    /\ path_result = None
    /\ fs \in UNION {[present -> {File(1, 0)}] :
                        present \in SUBSET {"/workspace/x", "/workspace/a"}}
    /\ fs_before = fs
    /\ batch_ops = <<>>
    /\ batch_idx = 1
    /\ rollback_info = <<>>
    /\ batch_phase = "idle"
    /\ rollback_failed = FALSE
    /\ fs_log = <<>>

NextDelete == ValidatePath \/ DeletePath

SpecDelete == InitDelete /\ [][NextDelete]_vars

(* C31: validation fails with PathSecurityError for                        *)
(* /workspace/../etc/passwd, for the relative path ../x and for the empty  *)
(* string, and Delete fails with PathSecurityError for /workspace.         *)
C31_EscapesRefused ==
    /\ ( /\ path_result # None
         /\ path_input \in {EscapePath, DotDot \o Sep \o <<"x">>, <<>>} )
           => Val(path_result).raised
    /\ (fs_log # <<>> /\ path_input = WORKSPACE_ROOT)
           => fs_log[1].raised = "PathSecurityError"

(* C32: Delete of a path that does not exist in the workspace fails with   *)
(* FileNotFound and changes nothing.                                       *)
C32_DeleteMissingFails ==
    ( /\ fs_log # <<>>
      /\ fs_log[1].path \notin {"", Root}
      /\ ~Has(fs_log[1].before, fs_log[1].path) )
        => fs_log[1].raised = "FileNotFoundError" /\ fs = fs_log[1].before

----------------------------------------------------------------------------
(* The exec timeout.  timeout_s is handed to _execute_command, which uses  *)
(* it in the handler of asyncio.TimeoutError only.                         *)

TimeoutS == 600

(* the worker's run with a command that ends one second after timeout_s    *)
TaskRunSlow(e, code) ==
    /\ now < MaxTicks * Tick
    /\ execute_command(e, "ok", code, 1, 0)
    /\ now' = now + TimeoutS + 1

NextTimeout ==
    \/ Next
    \/ \E e \in ExecIds, code \in CommandExitCodes : TaskRunSlow(e, code)

SpecTimeout == Init /\ [][NextTimeout]_vars

(* the worker of e has come back from a command that ran past timeout_s *)
RanPastTimeout(e) ==
    /\ Has(tasks, e) /\ tasks[e].pc = "admitted"
    /\ Has(tasks', e) /\ tasks'[e].pc # "admitted"
    /\ now' - now > TimeoutS

(* C33: an exec whose command is still running when timeout_seconds have   *)
(* elapsed since it started completes with exit_code -1 and usage.timeout. *)
C33_TimeoutCompletesExec ==
    [][\A e \in ExecIds :
          RanPastTimeout(e) =>
              /\ tasks'[e].exit_code = Some(FailureExitCode)
              /\ "timeout" \in tasks'[e].usage
              /\ Has(buffers', e)
              /\ \E i \in 1..Len(buffers'[e]) :
                     /\ buffers'[e][i].complete
                     /\ buffers'[e][i].exit_code = FailureExitCode]_vars

----------------------------------------------------------------------------
(* The volume of a persistent container when the container is removed.     *)

(* C36: a remove_container that deletes the row of a persistent container  *)
(* leaves the container's /workspace volume in the engine.                 *)
C36_RemoveKeepsPersistentVolume ==
    [][\A c \in DOMAIN containers :
          (/\ containers[c].persistent
           /\ containers[c].volume_name # None
           /\ Val(containers[c].volume_name) \in volumes
           /\ ~Has(containers', c))
          => Val(containers[c].volume_name) \in volumes']_vars

----------------------------------------------------------------------------
(* create_container with an idempotency key, kill, and create_container    *)
(* with the key again.                                                     *)

MaxRecreates == 2    \* create_container calls in one run

NextRecreate ==
    \/ /\ Cardinality(DOMAIN creates) < MaxRecreates
       /\ \E k \in Keys : CreateContainer(k, "")
    \/ \E n \in 1..MaxRecreates : CreateResolve(n, TRUE)
    \/ \E n \in 1..MaxRecreates, ok \in BOOLEAN : CreateDocker(n, ok, FALSE)
    \/ \E n \in 1..MaxRecreates : CreateCommit(n)
    \/ \E c \in DOMAIN containers, o \in DockerOutcomes : KillStop(c, o)
    \/ \E n \in DOMAIN kills, o \in DockerOutcomes : KillRemove(n, o)
    \/ \E n \in DOMAIN kills : KillDetach(n)

SpecRecreate == Init /\ [][NextRecreate]_vars

(* the containers created with the key that kill has removed *)
RemovedWithKey(key) ==
    {c \in {kills[k].container_id :
                k \in {x \in DOMAIN kills : kills[x].pc \in {"detach", "returned"}}} :
        \E m \in DOMAIN creates :
            /\ creates[m].idempotency_key = key
            /\ creates[m].pc = "returned"
            /\ creates[m].container_id = Some(c)}

----------------------------------------------------------------------------
(* Reconcile some time after the rows were written.                        *)

NextReconLater ==
    \/ NextRecon
    \/ AdvanceClock

SpecReconLater == InitRecon /\ [][NextReconLater]_vars

(* C39: the clean-up of a row whose container has left the engine changes  *)
(* the row's status and nothing else of the row; last_seen stays.          *)
C39_CleanupChangesOnlyStatus ==
    [][\A c \in DOMAIN containers :
          (/\ recon.pc = "running" /\ recon'.pc = "running"
           /\ ~recon.broken
           /\ c \in recon.missing /\ c \notin recon'.missing)
          => recon'.session[c] = [recon.session[c] EXCEPT !.status = "stopped"]]_vars

----------------------------------------------------------------------------
(* FilesystemManager.stat next to read and write.                          *)

(* a content of the model stands for that many bytes *)
Size(content) == content

(* stat, the etag of a file: a hash of the path, the size and the mtime *)
stat_etag(path, size, mtime) == <<path, size, mtime>>

(* stat of a file: the etag of its metadata, or FileNotFoundError *)
fs_stat(files, path) ==
    IF ~Has(files, path)
    THEN [raised |-> "FileNotFoundError", etag |-> None]
    ELSE [raised |-> "none",
          etag |-> Some(stat_etag(path, Size(files[path].content), files[path].mtime))]

(* stat() *)
StatFile(path) ==
    /\ Len(fs_log) < MaxFileCalls
    /\ LET r == fs_stat(fs, path)
       IN  fs_log' = Append(fs_log,
               [op |-> "stat", path |-> path, content |-> None,
                if_match_etag |-> None, raised |-> r.raised, etag |-> r.etag,
                before |-> fs])
    /\ UNCHANGED <<execVars, createVars, managerVars, pathVars, batchVars>>

NextStat ==
    \/ \E p \in BatchPaths, c \in Contents, e \in KnownEtags : WriteFile(p, c, e)
    \/ \E p \in BatchPaths : ReadFile(p)
    \/ \E p \in BatchPaths : StatFile(p)

SpecStat == InitFiles /\ [][NextStat]_vars

(* C40: while a file is unchanged, Stat, Read and Write report one etag    *)
(* for it, and a Write whose if_match_etag is the etag a Stat returned     *)
(* goes through.                                                           *)
C40_StatEtagIsTheEtag ==
    \A i \in 1..Len(fs_log) : \A j \in 1..Len(fs_log) :
        ( /\ i < j
          /\ fs_log[i].op = "stat" /\ fs_log[i].raised = "none"
          /\ fs_log[j].path = fs_log[i].path
          /\ \A k \in (i + 1)..(j - 1) : ~Wrote(k, fs_log[i].path) )
            => /\ fs_log[j].op = "read" => fs_log[j].etag = fs_log[i].etag
               /\ (fs_log[j].op = "write" /\ fs_log[j].if_match_etag = fs_log[i].etag)
                      => fs_log[j].raised = "none"

----------------------------------------------------------------------------
(* The workers under the event loop's scheduling, with kill next to them.  *)

(* the steps of the worker task of exec e *)
TaskStep(e) ==
    \/ TaskStart(e)
    \/ \E o \in Outcomes, code \in CommandExitCodes, out \in OutputCases :
          TaskRun(e, o, code, out[1], out[2])
    \/ \E committed \in BOOLEAN : TaskFinish(e, committed)

(* the steps of execute() after the exec id was allocated *)
ExecuteStep(e) ==
    \/ ExecuteVerify(e)
    \/ ExecuteSpawn(e)

NextExecLive ==
    \/ \E c \in ContainerIds : ExecStart(c, "", MaxExecs, MaxManagers)
    \/ \E e \in ExecIds : ExecuteStep(e)
    \/ \E e \in ExecIds : TaskStep(e)
    \/ \E m \in ManagerIds, e \in ExecIds : Cancel(m, e)
    \/ \E c \in DOMAIN containers, o \in DockerOutcomes : KillStop(c, o)
    \/ \E n \in DOMAIN kills, o \in DockerOutcomes : KillRemove(n, o)
    \/ \E n \in DOMAIN kills : KillDetach(n)

(* the event loop runs every coroutine that can take a step: the calls of  *)
(* execute() and the worker tasks                                          *)
SpecExecLive ==
    /\ Init
    /\ [][NextExecLive]_vars
    /\ \A e \in ExecIds : WF_vars(ExecuteStep(e)) /\ WF_vars(TaskStep(e))

(* C37: every exec that execute() accepted eventually has a completion     *)
(* chunk and an Exec row with ended_at set, whatever happens to its        *)
(* container and whenever it is cancelled.                                 *)
C37_AcceptedExecCompletes ==
    \A e \in ExecIds :
        Has(tasks, e) ~> (/\ Has(execs, e) /\ execs[e].ended_at # None
                          /\ Has(buffers, e) /\ CompletionIndexes(e) # {})

----------------------------------------------------------------------------
(* The lock of the warm pool.                                              *)

(* C38: under any interleaving of Claim calls, refill tasks and            *)
(* health-check rounds the lock is always released again: every Claim      *)
(* eventually returns or raises, and every health-check round eventually   *)
(* ends.                                                                   *)
C38_LockAlwaysReleased ==
    /\ (lock # None) ~> (lock = None)
    /\ \A t \in WarmTaskIds :
           (Has(wtasks, t) /\ wtasks[t].kind = "claim")
               ~> (Has(wtasks, t) /\ wtasks[t].pc \in {"returned", "raised"})
    /\ \A t \in WarmTaskIds :
           (Has(wtasks, t) /\ wtasks[t].kind = "health")
               ~> (Has(wtasks, t) /\ wtasks[t].pc = "sleep")

====
